---- MODULE Spec2Model ----
(***************************************************************************)
(* ConvoHelper: ingestion (Parser), normalisation (Parser.parseMessage,    *)
(* Parser.processContent, Parser.getISOWeek), temporal clustering          *)
(* (Processor.processConversations) and the session driven by the upload   *)
(* page (handleFiles, showUploadSuccess, processData).                     *)
(*                                                                         *)
(* Time.  A JavaScript Date is modelled by its local wall-clock reading    *)
(* [day, min]: day is the number of local calendar days since 2018-01-01   *)
(* (a Monday), min the minute of that day.  Date.valueOf() is the UTC      *)
(* instant, in minutes, which depends on the host's time zone: hostTz      *)
(* names the daylight-saving regime of the host the page runs on.          *)
(***************************************************************************)
EXTENDS Integers, Sequences, FiniteSets, TLC

VARIABLES
    appData,      \* window.appData (part_003:7-14)
    convoHelper,  \* window.convoHelper: Undefined, or [timezoneOffset |-> hours]
    pc,           \* position of the processData run
    runData,      \* processData's local `data` (the parsed JSON)
    toast,        \* the text last shown by UI.showToast
    page,         \* UI.currentPage
    controlsShown,\* #identity-selector and #upload-actions are not hidden
    preUpload,    \* history: appData as it was before the last upload
    lastEvent,    \* history: what the last handler or pipeline step did
    hostTz,       \* environment: daylight-saving regime of the host
    inp,          \* input of the function under study
    out           \* the sequence of its results so far

vars == <<appData, convoHelper, pc, runData, toast, page, controlsShown, preUpload,
          lastEvent, hostTz, inp, out>>

\* JavaScript values are tagged records; null and undefined carry no payload.
Undefined == [t |-> "undefined"]
Null == [t |-> "null"]

(***************************************************************************)
(* Bounds                                                                  *)
(***************************************************************************)
NumYears == 10
MaxWords == 3
MaxMsgs == 3

\* the calendar of the model starts on 2018-01-01, a Monday
Years == 2018..(2017 + NumYears)
FirstYear == CHOOSE y \in Years : \A z \in Years : y <= z
LastYear == FirstYear + NumYears - 1

\* the outcome of a call: the value returned, or the error thrown
Ok(v) == [ok |-> TRUE, v |-> v]
Throw(name, message) == [ok |-> FALSE, err |-> [name |-> name, message |-> message]]

\* the statements after a call run on the value it returned; a throw skips them
Then(outcome, Rest(_)) == IF outcome.ok THEN Rest(outcome.v) ELSE outcome

(***************************************************************************)
(* The civil calendar behind Date's local-time getters and setters         *)
(***************************************************************************)
IsLeap(y) == (y % 4 = 0 /\ y % 100 # 0) \/ y % 400 = 0

DaysInYear(y) == IF IsLeap(y) THEN 366 ELSE 365

RECURSIVE YearStart(_)
YearStart(y) == IF y <= FirstYear THEN 0 ELSE YearStart(y - 1) + DaysInYear(y - 1)

LastDay == YearStart(LastYear + 1) - 1

\* Date.prototype.getFullYear of a local day number
getFullYear(d) ==
    CHOOSE y \in (FirstYear - 1)..(LastYear + 1) :
        /\ (y >= FirstYear => YearStart(y) <= d)
        /\ (y < FirstYear => d < 0)
        /\ (y <= LastYear => d < YearStart(y + 1))

DaysInMonth(y, m) ==
    IF m = 1 THEN (IF IsLeap(y) THEN 29 ELSE 28)
    ELSE IF m \in {3, 5, 8, 10} THEN 30 ELSE 31

RECURSIVE MonthStart(_, _)
MonthStart(y, m) == IF m = 0 THEN YearStart(y) ELSE MonthStart(y, m - 1) + DaysInMonth(y, m - 1)

\* Date.prototype.getMonth (0-11) of a local day number
getMonth(d) ==
    LET y == getFullYear(d)
    IN  CHOOSE m \in 0..11 : MonthStart(y, m) <= d /\ d < MonthStart(y, m) + DaysInMonth(y, m)

\* Date.prototype.getDate (1-31)
getDate(d) == d - MonthStart(getFullYear(d), getMonth(d)) + 1

\* Date.prototype.getDay: 0 (Sunday) .. 6 (Saturday); day 0 is a Monday
getDay(d) == (d + 1) % 7

(***************************************************************************)
(* The host's time zone.  Only the daylight-saving hour matters to the     *)
(* code (a constant base offset cancels in every difference): "fixed" has  *)
(* none, "north" advances the clock by one hour from April to October,     *)
(* "south" from October to March.                                          *)
(***************************************************************************)
TzProfiles == {"fixed", "north", "south"}

DstMinutes(tz, d) ==
    LET m == getMonth(d)
    IN  IF tz = "north" /\ m \in 3..9 THEN 60
        ELSE IF tz = "south" /\ m \in ({0, 1, 2} \cup {9, 10, 11}) THEN 60
        ELSE 0

\* Date.prototype.valueOf, in minutes: the UTC instant of a local reading
valueOf(tz, date) == date.day * 1440 + date.min - DstMinutes(tz, date.day)

CeilDiv(a, b) == -((-a) \div b)

(***************************************************************************)
(* Parser.getISOWeek (parser.js:208-218)                                   *)
(***************************************************************************)
MinutesPerWeek == 10080

getISOWeek(tz, date) ==
    LET dayNr == (getDay(date.day) + 6) % 7
        \* target.setDate(target.getDate() - dayNr + 3): same wall-clock time
        thursday == [day |-> date.day - dayNr + 3, min |-> date.min]
        firstThursday == valueOf(tz, thursday)
        \* target.setMonth(0, 1)
        jan1 == [day |-> YearStart(getFullYear(thursday.day)), min |-> date.min]
        target == IF getDay(jan1.day) # 4
                  THEN [jan1 EXCEPT !.day = jan1.day + (((4 - getDay(jan1.day)) + 7) % 7)]
                  ELSE jan1
    IN  1 + CeilDiv(firstThursday - valueOf(tz, target), MinutesPerWeek)

(***************************************************************************)
(* ISO-8601, stated on the calendar alone: a date belongs to the week      *)
(* (Monday..Sunday) that contains it; the week's number is the rank of     *)
(* its Thursday among the Thursdays of the Thursday's year.                *)
(***************************************************************************)
IsoThursday(d) == CHOOSE t \in (d - 3)..(d + 3) : getDay(t) = 4 /\ (t - 3) <= d /\ d <= t + 3

IsoWeekYear(d) == getFullYear(IsoThursday(d))

IsoWeekRef(d) ==
    LET th == IsoThursday(d)
    IN  Cardinality({t \in YearStart(getFullYear(th))..th : getDay(t) = 4})

(***************************************************************************)
(* Message content.  A content string is a sequence of words separated by  *)
(* single spaces; a word is the sequence of the text fragments that make   *)
(* it up, so that the regular expressions of processContent are decided    *)
(* on the text itself and the rewritten text can be read again.  The word  *)
(* <<" ">> stands for a run of white space.                                *)
(***************************************************************************)
Scheme == "https://"
StickerExts == {".webp", ".gif", ".png", ".jpg", ".jpeg"}
mediaExtensions == {".jpg", ".jpeg", ".png", ".gif", ".webp", ".mp4", ".mov", ".avi"}
TikTokHosts == {"www.tiktok.com", "www.tiktokv.com", "m.tiktok.com", "tiktok.com"}
TikTokPaths == {"/share/video/", "/@u/video/"}
Digits == {"123"}
\* fragments that begin with one of / ? # &
TailStarts == {"/", "?x=1", "#top"}
\* fragments that begin the query or the hash of a URL
QueryStarts == {"?x=1", "#top"}
\* fragments that end with /
DirFrags == {"/", "/x/"}
\* fragments without "/" or "]", usable as a file name; "a%20b" is the
\* percent-encoding of "a b", "100%" is no percent-encoding at all
NameFrags == {"cat", "x", "p", "v", "a%20b", "100%"}
MalformedEscapes == {"100%"}
\* authorities the URL parser rejects (a port that is not a number)
InvalidHosts == {"x.com:port"}

wHi == <<"hi">>
wBlank == <<" ">>
wSticker == <<"[", Scheme, "media.tenor.com", "/x/", "cat", ".webp", "]">>
wStickerEnc == <<"[", Scheme, "media.tenor.com", "/x/", "a%20b", ".webp", "]">>
wStickerBad == <<"[", Scheme, "media.tenor.com", "/x/", "100%", ".gif", "]">>
wTikTok == <<Scheme, "www.tiktok.com", "/@u/video/", "123">>
wTikTokTail == <<Scheme, "www.tiktokv.com", "/share/video/", "123", "/">>
wTikSticker == <<"[", Scheme, "www.tiktok.com", "/@u/video/", "123", "/", "x", ".gif", "]">>
wImg == <<Scheme, "a.com", "/", "p", ".png">>
wVid == <<Scheme, "a.com", "/", "v", ".mp4">>
wLink == <<Scheme, "x.com", "/a">>
wLink2 == <<Scheme, "y.org", "/b">>
wLinkQuery == <<Scheme, "X.com", "/a", "?x=1">>
wBadUrl == <<Scheme, "x.com:port", "/a">>

\* String.prototype.trim() === ''
IsBlank(content) == \A i \in 1..Len(content) : content[i] = wBlank

\* decodeURIComponent
decode(str) ==
    IF str \in MalformedEscapes THEN Throw("URIError", <<"URI malformed">>)
    ELSE Ok(IF str = "a%20b" THEN "a b" ELSE str)

\* /\[https?:\/\/[^\]]*\/([^\/\]]+?)\.(webp|gif|png|jpg|jpeg)\]/ on one word:
\* the index of the "[" that opens a match, 0 when there is none
StickerAt(w) ==
    LET n == Len(w)
        hits == {i \in 1..n : /\ n >= i + 5
                              /\ w[i] = "["
                              /\ w[i + 1] = Scheme
                              /\ w[n] = "]"
                              /\ w[n - 1] \in StickerExts
                              /\ w[n - 2] \in NameFrags
                              /\ w[n - 3] \in DirFrags}
    IN  IF hits = {} THEN 0 ELSE CHOOSE i \in hits : \A j \in hits : i <= j

\* the tiktok expression on one word: the index of the scheme that opens a match
TikTokAt(w) ==
    LET n == Len(w)
        hits == {i \in 1..n : /\ n >= i + 3
                              /\ w[i] = Scheme
                              /\ w[i + 1] \in TikTokHosts
                              /\ w[i + 2] \in TikTokPaths
                              /\ w[i + 3] \in Digits}
    IN  IF hits = {} THEN 0 ELSE CHOOSE i \in hits : \A j \in hits : i <= j

\* (?:[/?#&].*)? : the match runs on to the end of the line
TikTokRunsOn(w) == LET i == TikTokAt(w) IN Len(w) >= i + 4 /\ w[i + 4] \in TailStarts

\* /https?:\/\/[^\s]+/ on one word: from the scheme to the end of the word
LinkAt(w) ==
    LET hits == {i \in 1..Len(w) : w[i] = Scheme /\ i < Len(w)}
    IN  IF hits = {} THEN 0 ELSE CHOOSE i \in hits : \A j \in hits : i <= j

LinkOf(w) == SubSeq(w, LinkAt(w), Len(w))

\* content.replace(stickerRegex, (match, p1) => `[Sticker: ${decode(p1)}]`):
\* the callback runs match by match, and the first throw ends the call
RECURSIVE ReplaceStickers(_)
ReplaceStickers(content) ==
    IF content = <<>> THEN Ok(<<>>)
    ELSE IF StickerAt(Head(content)) = 0
    THEN Then(ReplaceStickers(Tail(content)), LAMBDA rest : Ok(<<Head(content)>> \o rest))
    ELSE Then(decode(Head(content)[Len(Head(content)) - 2]), LAMBDA p1 :
         Then(ReplaceStickers(Tail(content)), LAMBDA rest :
              Ok(<<SubSeq(Head(content), 1, StickerAt(Head(content)) - 1) \o <<"[Sticker:">>,
                   <<p1, "]">>>> \o rest)))

\* cleanContent.replace(tiktokRegex, () => `[Media: TikTok Video]`)
RECURSIVE ReplaceTikTok(_)
ReplaceTikTok(content) ==
    IF content = <<>> THEN <<>>
    ELSE LET w == Head(content)
             i == TikTokAt(w)
         IN  IF i = 0 THEN <<w>> \o ReplaceTikTok(Tail(content))
             ELSE IF TikTokRunsOn(w)
             THEN <<SubSeq(w, 1, i - 1) \o <<"[Media:">>, <<"TikTok">>, <<"Video]">>>>
             ELSE <<SubSeq(w, 1, i - 1) \o <<"[Media:">>, <<"TikTok">>,
                    <<"Video]">> \o SubSeq(w, i + 4, Len(w))>>
                  \o ReplaceTikTok(Tail(content))

\* stickerRegex.test(content)
StickerTest(content) == \E k \in 1..Len(content) : StickerAt(content[k]) # 0

\* tiktokRegex.test(content)
TikTokTest(content) == \E k \in 1..Len(content) : TikTokAt(content[k]) # 0

\* content.match(linkRegex) || []
RECURSIVE MatchLinks(_)
MatchLinks(content) ==
    IF content = <<>> THEN <<>>
    ELSE (IF LinkAt(Head(content)) = 0 THEN <<>> ELSE <<LinkOf(Head(content))>>)
         \o MatchLinks(Tail(content))

\* link.toLowerCase().endsWith(ext) for some link and some ext
AnyMediaLinkNever(links) == FALSE

AnyMediaLink(links) == \E k \in 1..Len(links) : links[k][Len(links[k])] \in mediaExtensions

\* new URL(link): hostname is the authority in lower case, pathname the path
\* without query and hash, "/" when the URL has none
hostname(authority) == IF authority = "X.com" THEN "x.com" ELSE authority

pathname(link) ==
    LET stops == {k \in 3..Len(link) : link[k] \in QueryStarts}
        end == IF stops = {} THEN Len(link) ELSE (CHOOSE k \in stops : \A j \in stops : k <= j) - 1
    IN  IF end < 3 THEN <<"/">> ELSE SubSeq(link, 3, end)

URL(link) ==
    IF link[2] \in InvalidHosts THEN Throw("TypeError", <<"Invalid URL">>)
    ELSE Ok([hostname |-> hostname(link[2]), pathname |-> pathname(link)])

\* "[Link: " + urlObj.hostname + urlObj.pathname + "]" of links[0]
LinkDisplay(links) ==
    Then(URL(links[1]), LAMBDA urlObj :
         Ok(<<<<"[Link:">>, <<urlObj.hostname>> \o urlObj.pathname \o <<"]">>>>))

(***************************************************************************)
(* Parser.processContent (parser.js:150-200): the record returned, or the  *)
(* error thrown by decodeURIComponent or by the URL constructor            *)
(***************************************************************************)
Typed(content, type) == Ok([processedContent |-> content, messageType |-> type])

\* the if-chain that determines the type (parser.js:176-199)
DetermineType(content, cleanContent, links) ==
    IF IsBlank(cleanContent) THEN Typed(<<>>, "empty")
    ELSE IF StickerTest(content) THEN Typed(cleanContent, "sticker")
    ELSE IF TikTokTest(content) THEN Typed(cleanContent, "media")
    ELSE IF links # <<>>
    THEN IF AnyMediaLink(links) THEN Typed(cleanContent, "media")
         ELSE Then(LinkDisplay(links), LAMBDA display : Typed(display, "link"))
    ELSE Typed(cleanContent, "text")

processContent(content) ==
    Then(ReplaceStickers(content), LAMBDA replaced :
         DetermineType(content, ReplaceTikTok(replaced), MatchLinks(content)))

(***************************************************************************)
(* Raw input.  The text of a file either is not JSON, or parses to a JSON  *)
(* value.  A JSON object on the ingestion path is described by `depth`,    *)
(* the number of levels of the key path "Direct Message" / "Direct         *)
(* Messages" / "ChatHistory" it holds, and `chat`, the entries of          *)
(* ChatHistory in key order.  A key is a sequence of tokens; a string      *)
(* value is [t |-> "string", v |-> s] with s a sequence (<<>> is "").      *)
(***************************************************************************)
Str(s) == [t |-> "string", v |-> s]
Num(n) == [t |-> "number", v |-> n]
Prefix == "Chat History with "
Colon == ":"

\* truthiness of a JavaScript value
Truthy(x) ==
    IF x.t = "string" THEN x.v # <<>>
    ELSE IF x.t = "number" THEN x.v # 0
    ELSE x.t \notin {"undefined", "null"}

\* JSON.parse
JSONparse(raw) ==
    IF raw.t = "string" /\ raw.json THEN Ok(raw.value)
    ELSE IF raw.t = "null" THEN Ok(Null)
    ELSE Throw("SyntaxError", <<"Unexpected token">>)

(***************************************************************************)
(* Parser.validateStructure (parser.js:33-72): the value returned and the  *)
(* line written to the console                                             *)
(***************************************************************************)
RECURSIVE ValidateKeys(_)
ValidateKeys(chat) ==
    IF chat = <<>> THEN [valid |-> TRUE, console |-> <<>>]
    ELSE LET key == Head(chat).key
         IN  IF key = <<>> \/ key[1] # Prefix \/ key[Len(key)] # Colon
             THEN [valid |-> FALSE, console |-> <<"Invalid conversation key: ">> \o key]
             ELSE IF Head(chat).value.t # "array"
             THEN [valid |-> FALSE, console |-> <<"Conversation ">> \o key \o <<" is not an array">>]
             ELSE ValidateKeys(Tail(chat))

validateStructure(data) ==
    IF data.t \in {"null", "undefined"}
    THEN Throw("TypeError", <<"Cannot read properties of null">>)
    ELSE IF data.t # "object" \/ data.depth < 1
    THEN Ok([valid |-> FALSE, console |-> <<"Missing \"Direct Message\" key">>])
    ELSE IF data.depth < 2
    THEN Ok([valid |-> FALSE, console |-> <<"Missing \"Direct Messages\" key">>])
    ELSE IF data.depth < 3
    THEN Ok([valid |-> FALSE, console |-> <<"Missing \"ChatHistory\" key">>])
    ELSE IF data.chat = <<>>
    THEN Ok([valid |-> FALSE, console |-> <<"No conversations found">>])
    ELSE Ok(ValidateKeys(data.chat))

(***************************************************************************)
(* Parser.parseJSON (parser.js:12-26): every throw of the try block,       *)
(* the structure error included, is caught and wrapped                     *)
(***************************************************************************)
Wrap(error) == Throw("Error", <<"Failed to parse JSON: ">> \o error.message)

parseJSON(jsonString) ==
    LET parsed == JSONparse(jsonString)
    IN  IF ~parsed.ok THEN Wrap(parsed.err)
        ELSE LET checked == validateStructure(parsed.v)
             IN  IF ~checked.ok THEN Wrap(checked.err)
                 ELSE IF ~checked.v.valid
                 THEN Wrap([name |-> "Error", message |-> <<"Invalid JSON structure">>])
                 ELSE Ok(parsed.v)

(***************************************************************************)
(* Parser.validateMessage (parser.js:109-114)                              *)
(***************************************************************************)
validateMessage(message) ==
    IF message.t \in {"null", "undefined"}
    THEN Throw("TypeError", <<"Cannot read properties of null (reading 'Date')">>)
    ELSE IF message.t # "object" THEN Ok(FALSE)
    ELSE Ok(Truthy(message.Date) /\ Truthy(message.From) /\ message.Content.t # "undefined")

(***************************************************************************)
(* Parser.parseMessage (parser.js:121-143)                                 *)
(***************************************************************************)
\* new Date("YYYY-MM-DDTHH:MM:SS"): the local reading the string spells
DateString(y, mo, d, h, mi) == [day |-> MonthStart(y, mo - 1) + d - 1, min |-> 60 * h + mi]

\* date.setHours(date.getHours() + timezoneOffset): wall-clock arithmetic
setHours(date, hours) ==
    LET total == date.min + 60 * hours
    IN  [day |-> date.day + (total \div 1440), min |-> total % 1440]

\* window.convoHelper.timezoneOffset || 0
ReadTimezoneOffset(helper) ==
    IF helper.t = "undefined"
    THEN Throw("TypeError", <<"Cannot read properties of undefined (reading 'timezoneOffset')">>)
    ELSE Ok(helper.timezoneOffset)

\* the object returned (parser.js:129-142)
Parsed(tz, date, message, pc0) ==
    [date |-> date,
     timestamp |-> valueOf(tz, date),
     from |-> message.From.v[1],
     content |-> pc0.processedContent,
     type |-> pc0.messageType,
     week |-> getISOWeek(tz, date),
     year |-> getFullYear(date.day),
     month |-> getMonth(date.day),
     day |-> getDate(date.day),
     hour |-> date.min \div 60,
     dayOfWeek |-> getDay(date.day)]

parseMessage(tz, helper, message) ==
    Then(ReadTimezoneOffset(helper), LAMBDA timezoneOffset :
         IF message.Date.t # "string"
         THEN Throw("TypeError", <<"message.Date.replace is not a function">>)
         ELSE IF message.Content.t = "null"
         THEN Throw("TypeError", <<"Cannot read properties of null (reading 'replace')">>)
         ELSE IF message.Content.t # "string"
         THEN Throw("TypeError", <<"cleanContent.replace is not a function">>)
         ELSE Then(processContent(message.Content.v), LAMBDA pc0 :
                   Ok(Parsed(tz, setHours(message.Date.v[1], timezoneOffset), message, pc0))))

(***************************************************************************)
(* Parser.extractConversations (parser.js:79-102)                          *)
(***************************************************************************)
RECURSIVE RemoveFirst(_, _)
RemoveFirst(s, tok) ==
    IF s = <<>> THEN <<>>
    ELSE IF Head(s) = tok THEN Tail(s)
    ELSE <<Head(s)>> \o RemoveFirst(Tail(s), tok)

\* key.replace('Chat History with ', '').replace(':', '')
personNameOf(key) == RemoveFirst(RemoveFirst(key, Prefix), Colon)

\* the inner loop: the valid messages of one conversation, or the first throw
RECURSIVE ValidMessages(_, _, _, _)
ValidMessages(tz, helper, messages, acc) ==
    IF messages = <<>> THEN Ok(acc)
    ELSE Then(validateMessage(Head(messages)), LAMBDA valid :
              IF ~valid THEN ValidMessages(tz, helper, Tail(messages), acc)
              ELSE Then(parseMessage(tz, helper, Head(messages)), LAMBDA parsed :
                        ValidMessages(tz, helper, Tail(messages), Append(acc, parsed))))

Assign(f, k, v) == [x \in (DOMAIN f) \cup {k} |-> IF x = k THEN v ELSE f[x]]

RECURSIVE ExtractFrom(_, _, _, _)
ExtractFrom(tz, helper, chat, conversations) ==
    IF chat = <<>> THEN Ok(conversations)
    ELSE Then(ValidMessages(tz, helper, Head(chat).value.items, <<>>), LAMBDA validMessages :
              IF Len(validMessages) > 0
              THEN ExtractFrom(tz, helper, Tail(chat),
                               Assign(conversations, personNameOf(Head(chat).key), validMessages))
              ELSE ExtractFrom(tz, helper, Tail(chat), conversations))

extractConversations(tz, helper, data) == ExtractFrom(tz, helper, data.chat, <<>>)

(***************************************************************************)
(* Parser.getWeekDateRange (parser.js:226-243), as local day numbers       *)
(***************************************************************************)
getWeekDateRange(year, week) ==
    LET simple == YearStart(year) + (week - 1) * 7
        dow == getDay(simple)
        ISOweekStart == IF dow <= 4 THEN simple - dow + 1 ELSE simple + 8 - dow
    IN  [start |-> ISOweekStart, end |-> ISOweekStart + 6]

(***************************************************************************)
(* Array.prototype.sort: a stable sort by the comparator                   *)
(***************************************************************************)
\* messages.sort((a, b) => a.timestamp - b.timestamp)
RECURSIVE InsertByTimestamp(_, _)
InsertByTimestamp(sorted, m) ==
    IF sorted = <<>> THEN <<m>>
    ELSE IF Head(sorted).timestamp - m.timestamp <= 0
    THEN <<Head(sorted)>> \o InsertByTimestamp(Tail(sorted), m)
    ELSE <<m>> \o sorted

RECURSIVE SortFrom(_, _)
SortFrom(sorted, rest) ==
    IF rest = <<>> THEN sorted
    ELSE SortFrom(InsertByTimestamp(sorted, Head(rest)), Tail(rest))

\* the array left as it was given
NoSort(messages) == messages

SortByTimestamp(messages) == SortFrom(<<>>, messages)

\* (a, b) => a.year === b.year ? a.week - b.week : a.year - b.year
CompareWeeks(a, b) == IF a.year = b.year THEN a.week - b.week ELSE a.year - b.year

RECURSIVE InsertWeek(_, _)
InsertWeek(sorted, w) ==
    IF sorted = <<>> THEN <<w>>
    ELSE IF CompareWeeks(Head(sorted), w) <= 0
    THEN <<Head(sorted)>> \o InsertWeek(Tail(sorted), w)
    ELSE <<w>> \o sorted

RECURSIVE SortWeeksFrom(_, _)
SortWeeksFrom(sorted, rest) ==
    IF rest = <<>> THEN sorted
    ELSE SortWeeksFrom(InsertWeek(sorted, Head(rest)), Tail(rest))

SortWeeks(weeks) == SortWeeksFrom(<<>>, weeks)

(***************************************************************************)
(* Processor.clusterByWeeks (part_000:69-97).  An object is modelled by    *)
(* `order`, its keys in insertion order, and `at`, the value of each key.  *)
(* The key `${year}-W${week, 2 digits}` is the pair <<year, week>>.        *)
(***************************************************************************)
EmptyObject == [order |-> <<>>, at |-> <<>>]

HasKey(obj, k) == k \in DOMAIN obj.at

Put(obj, k, v) ==
    [order |-> IF HasKey(obj, k) THEN obj.order ELSE Append(obj.order, k),
     at |-> Assign(obj.at, k, v)]

WeekKey(msg) == <<msg.year, msg.week>>

\* weeks[key].messages.push(msg); weeks[key].count++
AddToWeekCountOnce(weekData, msg) ==
    [weekData EXCEPT !.messages = Append(@, msg), !.count = 1]

AddToWeek(weekData, msg) ==
    [weekData EXCEPT !.messages = Append(@, msg), !.count = @ + 1]

RECURSIVE ClusterFrom(_, _)
ClusterFrom(weeks, messages) ==
    IF messages = <<>> THEN weeks
    ELSE LET msg == Head(messages)
             key == WeekKey(msg)
             old == IF HasKey(weeks, key) THEN weeks.at[key]
                    ELSE [year |-> msg.year, week |-> msg.week, messages |-> <<>>,
                          count |-> 0,
                          dateRange |-> getWeekDateRange(msg.year, msg.week)]
         IN  ClusterFrom(Put(weeks, key, AddToWeek(old, msg)), Tail(messages))

clusterByWeeks(messages) == ClusterFrom(EmptyObject, messages)

(***************************************************************************)
(* Processor.groupIntoMonths (part_000:104-141); the month key             *)
(* `${year}-${month + 1, 2 digits}` is the pair <<year, month>>.           *)
(***************************************************************************)
MonthNames ==
    <<"January", "February", "March", "April", "May", "June", "July", "August",
      "September", "October", "November", "December">>

getMonthName(monthIndex) == MonthNames[monthIndex + 1]

MonthMessageLast(week) == week.messages[Len(week.messages)]

MonthMessage(week) == week.messages[1]

RECURSIVE GroupFrom(_, _, _)
GroupFrom(months, weekClusters, keys) ==
    IF keys = <<>> THEN months
    ELSE LET weekKey == Head(keys)
             week == weekClusters.at[weekKey]
         IN  IF Len(week.messages) > 0
             THEN LET firstMsg == MonthMessage(week)
                      monthKey == <<firstMsg.year, firstMsg.month>>
                      old == IF HasKey(months, monthKey) THEN months.at[monthKey]
                             ELSE [year |-> firstMsg.year, month |-> firstMsg.month,
                                   weeks |-> <<>>, totalMessages |-> 0,
                                   monthName |-> getMonthName(firstMsg.month)]
                      entry == [key |-> weekKey, year |-> week.year, week |-> week.week,
                                messages |-> week.messages, count |-> week.count,
                                dateRange |-> week.dateRange]
                  IN  GroupFrom(Put(months, monthKey,
                                    [old EXCEPT !.weeks = Append(@, entry),
                                                !.totalMessages = @ + week.count]),
                                weekClusters, Tail(keys))
             ELSE GroupFrom(months, weekClusters, Tail(keys))

SortMonthWeeks(months) ==
    [months EXCEPT !.at = [k \in DOMAIN months.at |->
                              [months.at[k] EXCEPT !.weeks = SortWeeks(@)]]]

groupIntoMonths(weekClusters) ==
    SortMonthWeeks(GroupFrom(EmptyObject, weekClusters, weekClusters.order))

(***************************************************************************)
(* Processor.processConversations (part_000:36-62).  messages.sort sorts   *)
(* the array of the conversations object itself.                           *)
(***************************************************************************)
processPerson(sortedMessages) ==
    LET weekClusters == clusterByWeeks(sortedMessages)
    IN  [messages |-> sortedMessages,
         totalMessages |-> Len(sortedMessages),
         weekClusters |-> weekClusters,
         monthGroups |-> groupIntoMonths(weekClusters),
         firstMessage |-> sortedMessages[1],
         lastMessage |-> sortedMessages[Len(sortedMessages)]]

SortedInPlace(conversations) ==
    [person \in DOMAIN conversations |-> SortByTimestamp(conversations[person])]

processConversations(conversations) ==
    [person \in DOMAIN conversations |-> processPerson(SortByTimestamp(conversations[person]))]

(***************************************************************************)
(* Session: initial state (part_003:7-14); window.convoHelper is created   *)
(* only by DateRangeFilter.applyTimezone (part_007:299).                   *)
(***************************************************************************)
InitAppData ==
    [rawData |-> Null, conversations |-> Null, processed |-> Null,
     overviewStats |-> Null, userIdentity |-> Null, allSenders |-> {}]

SessionIdle ==
    /\ appData = InitAppData
    /\ convoHelper = Undefined
    /\ pc = "idle"
    /\ runData = Null
    /\ toast = <<>>
    /\ page = "upload"
    /\ controlsShown = FALSE
    /\ preUpload = InitAppData
    /\ lastEvent = "none"

sessionVars == <<appData, convoHelper, pc, runData, toast, page, controlsShown,
                 preUpload, lastEvent>>

\* UI.currentPerson and UI.selectedWeeks (ui.js:8-9); the week checkboxes of
\* the export timeline, none before gotoExport, with the week and the month
\* checkboxes that are checked and the summary shown; the file a FileReader
\* is reading, if any, and the number of files read so far
MaxUploads == 2

UiIdle ==
    [currentPerson |-> Null, selectedWeeks |-> {}, timeline |-> {}, weekChecks |-> {},
     monthChecks |-> {}, summary |-> [weeks |-> 0, messages |-> 0, files |-> 0],
     reading |-> {}, reads |-> 0]

(***************************************************************************)
(* SpecWeek: getISOWeek applied to every date of the range, at 03:00        *)
(* and at noon, on hosts of each daylight-saving regime.                   *)
(***************************************************************************)
WeekInputs == [day : 0..LastDay, min : {180, 720}]

InitWeek ==
    /\ SessionIdle
    /\ hostTz \in TzProfiles
    /\ inp \in WeekInputs
    /\ out = <<>>

CallGetISOWeek ==
    /\ out = <<>>
    /\ out' = <<getISOWeek(hostTz, inp)>>
    /\ UNCHANGED <<sessionVars, hostTz, inp>>

NextWeek == CallGetISOWeek

SpecWeek == InitWeek /\ [][NextWeek]_vars


(***************************************************************************)
(* SpecContent: processContent applied to every content of up to MaxWords  *)
(* words, and applied again to the content it produced.                    *)
(***************************************************************************)
WordPool ==
    {wHi, wSticker, wStickerEnc, wStickerBad, wTikTok, wTikTokTail, wTikSticker, wImg, wVid,
     wLink, wLink2, wLinkQuery, wBadUrl}

RECURSIVE SeqsUpTo(_, _)
SeqsUpTo(S, n) ==
    IF n = 0 THEN {<<>>}
    ELSE LET shorter == SeqsUpTo(S, n - 1)
         IN  shorter \cup {Append(q, x) : q \in shorter, x \in S}

ContentInputs == SeqsUpTo(WordPool, MaxWords) \cup {<<wBlank>>, <<wBlank, wBlank>>}

InitContent ==
    /\ SessionIdle
    /\ hostTz = "fixed"
    /\ inp \in ContentInputs
    /\ out = <<>>

CallProcessContent ==
    /\ out = <<>>
    /\ out' = <<processContent(inp)>>
    /\ UNCHANGED <<sessionVars, hostTz, inp>>

\* normalisation run again on the content the first pass returned
CallProcessContentAgain ==
    /\ Len(out) = 1
    /\ out[1].ok
    /\ out' = Append(out, processContent(out[1].v.processedContent))
    /\ UNCHANGED <<sessionVars, hostTz, inp>>

NextContent == CallProcessContent \/ CallProcessContentAgain

SpecContent == InitContent /\ [][NextContent]_vars


(***************************************************************************)
(* The precedence of the content types as the specification words it,      *)
(* read off the words of the pool.                                         *)
(***************************************************************************)
BracketedImageWords == {wSticker, wStickerEnc, wStickerBad, wTikSticker}
ShortVideoWords == {wTikTok, wTikTokTail, wTikSticker}
UrlWords == WordPool \ {wHi}
MediaUrlWords == {wImg, wVid}
LinkWords == {wLink, wLink2, wLinkQuery, wBadUrl}

Has(content, S) == \E k \in 1..Len(content) : content[k] \in S

FirstIn(content, S) ==
    content[CHOOSE k \in 1..Len(content) :
                content[k] \in S /\ \A j \in 1..(k - 1) : content[j] \notin S]

ExpectedType(content) ==
    IF content = <<>> \/ (\A k \in 1..Len(content) : content[k] = wBlank) THEN "empty"
    ELSE IF Has(content, BracketedImageWords) THEN "sticker"
    ELSE IF Has(content, ShortVideoWords) THEN "media"
    ELSE IF Has(content, UrlWords)
    THEN (IF Has(content, MediaUrlWords) THEN "media" ELSE "link")
    ELSE "text"

\* "[Link: <host><path>]" of a word of LinkWords
ExpectedLinkDisplay(w) ==
    IF w \in {wLink, wLinkQuery} THEN <<<<"[Link:">>, <<"x.com", "/a", "]">>>>
    ELSE IF w = wLink2 THEN <<<<"[Link:">>, <<"y.org", "/b", "]">>>>
    ELSE <<<<"[Link:">>, <<"x.com:port", "/a", "]">>>>

PrecedenceOf(result, content) ==
    /\ result.messageType = ExpectedType(content)
    /\ (result.messageType = "link" =>
            result.processedContent = ExpectedLinkDisplay(FirstIn(content, LinkWords)))
    /\ (result.messageType = "text" => result.processedContent = content)
    /\ (result.messageType = "empty" => result.processedContent = <<>>)

\* C5: processContent assigns every content exactly one type, by the fixed
\* precedence empty, sticker, short video (media), bare URL (media if some URL
\* ends in a media extension, else link displayed from the first URL only),
\* text (content unchanged).
C5_Precedence == out # <<>> => (out[1].ok /\ PrecedenceOf(out[1].v, inp))

\* the same precedence, on the calls that return
PrecedenceWhenReturned == (out # <<>> /\ out[1].ok) => PrecedenceOf(out[1].v, inp)

RawMsg(date, from, content) ==
    [t |-> "object", Date |-> Str(<<date>>), From |-> Str(<<from>>), Content |-> Str(content)]

\* 2024-01-01 is a Monday (week 1); 2024-01-31 and 2024-02-01 share week 5;
\* 2024-12-30 and 2025-01-01 share week 1 of ISO year 2025.
RawPool ==
    {RawMsg(DateString(2024, 1, 1, 10, 0), "bob", <<wHi>>),
     RawMsg(DateString(2024, 1, 31, 9, 0), "you", <<wHi>>),
     RawMsg(DateString(2024, 2, 1, 9, 30), "bob", <<wLink>>),
     RawMsg(DateString(2024, 2, 5, 12, 0), "you", <<wHi>>),
     RawMsg(DateString(2024, 2, 5, 12, 0), "bob", <<wSticker>>),
     RawMsg(DateString(2024, 12, 30, 8, 0), "bob", <<wHi>>),
     RawMsg(DateString(2025, 1, 1, 20, 0), "you", <<>>)}

NoOffset == [t |-> "object", timezoneOffset |-> 0]

ParsedPool(tz) == {parseMessage(tz, NoOffset, raw).v : raw \in RawPool}

ClusterInputs(tz) ==
    LET bobs == SeqsUpTo(ParsedPool(tz), MaxMsgs) \ {<<>>}
        amys == SeqsUpTo(ParsedPool(tz), 1)
    IN  {IF a = <<>> THEN Assign(<<>>, <<"bob">>, b)
         ELSE Assign(Assign(<<>>, <<"bob">>, b), <<"amy">>, a) : b \in bobs, a \in amys}

InitCluster ==
    /\ SessionIdle
    /\ hostTz \in TzProfiles
    /\ inp \in ClusterInputs(hostTz)
    /\ out = <<>>

CallProcessConversations ==
    /\ out = <<>>
    /\ out' = <<processConversations(inp)>>
    /\ UNCHANGED <<sessionVars, hostTz, inp>>

NextCluster == CallProcessConversations

SpecCluster == InitCluster /\ [][NextCluster]_vars

RECURSIVE SumOver(_, _, _)
SumOver(obj, keys, field) ==
    IF keys = <<>> THEN 0 ELSE obj.at[Head(keys)][field] + SumOver(obj, Tail(keys), field)

Occurrences(seq, x) == Cardinality({i \in 1..Len(seq) : seq[i] = x})

RECURSIVE OccurrencesInWeeks(_, _, _)
OccurrencesInWeeks(weekClusters, keys, x) ==
    IF keys = <<>> THEN 0
    ELSE Occurrences(weekClusters.at[Head(keys)].messages, x)
         + OccurrencesInWeeks(weekClusters, Tail(keys), x)

Range(seq) == {seq[i] : i \in 1..Len(seq)}

\* C1: after processConversations, in every conversation the counts of the week
\* clusters and the totals of the month groups each add up to the number of
\* messages, and every message is a member of exactly one week cluster.
C1_NoMessageLostOrDuplicated ==
    out # <<>> =>
        \A person \in DOMAIN out[1] :
            LET c == out[1][person]
            IN  /\ Len(c.messages) = Len(inp[person])
                /\ SumOver(c.weekClusters, c.weekClusters.order, "count") = Len(inp[person])
                /\ SumOver(c.monthGroups, c.monthGroups.order, "totalMessages") = Len(inp[person])
                /\ \A k \in DOMAIN c.weekClusters.at :
                        c.weekClusters.at[k].count = Len(c.weekClusters.at[k].messages)
                /\ \A x \in Range(inp[person]) :
                        OccurrencesInWeeks(c.weekClusters, c.weekClusters.order, x)
                            = Occurrences(inp[person], x)

\* C1 witness: a conversation of MaxMsgs messages has been split over two weeks
\* and two months.
C1_Witness ==
    /\ out # <<>>
    /\ Len(inp[<<"bob">>]) >= 3
    /\ Cardinality(DOMAIN out[1][<<"bob">>].weekClusters.at) >= 2
    /\ Cardinality(DOMAIN out[1][<<"bob">>].monthGroups.at) >= 2

SameIsoWeek(a, b) ==
    /\ IsoWeekYear(a.date.day) = IsoWeekYear(b.date.day)
    /\ IsoWeekRef(a.date.day) = IsoWeekRef(b.date.day)

InWeek(c, k, m) == m \in Range(c.weekClusters.at[k].messages)

\* C9: any two messages of a conversation that fall in the same ISO-8601 week,
\* month end and the December/January boundary included, are members of the
\* same week cluster.
C9_WeekNeverSplit ==
    out # <<>> =>
        \A person \in DOMAIN out[1] :
            LET c == out[1][person]
            IN  \A a, b \in Range(c.messages) :
                    SameIsoWeek(a, b) =>
                        \E k \in DOMAIN c.weekClusters.at : InWeek(c, k, a) /\ InWeek(c, k, b)

KeysOfMonth(c, mk) == {c.monthGroups.at[mk].weeks[i].key : i \in 1..Len(c.monthGroups.at[mk].weeks)}

Earliest(messages) ==
    CHOOSE m \in Range(messages) : \A n \in Range(messages) : m.timestamp <= n.timestamp

WeeksAscending(weeks) ==
    \A i \in 1..(Len(weeks) - 1) :
        \/ weeks[i].year < weeks[i + 1].year
        \/ (weeks[i].year = weeks[i + 1].year /\ weeks[i].week < weeks[i + 1].week)

\* C10: every week cluster appears in exactly one month group, the group of the
\* (year, month) of its chronologically earliest member, and the weeks of each
\* month group are sorted ascending by (year, week).
C10_WeekInMonthOfEarliest ==
    out # <<>> =>
        \A person \in DOMAIN out[1] :
            LET c == out[1][person]
            IN  /\ \A k \in DOMAIN c.weekClusters.at :
                    LET first == Earliest(c.weekClusters.at[k].messages)
                    IN  /\ <<first.year, first.month>> \in DOMAIN c.monthGroups.at
                        /\ \A mk \in DOMAIN c.monthGroups.at :
                                (k \in KeysOfMonth(c, mk)) <=> (mk = <<first.year, first.month>>)
                        /\ Cardinality({i \in 1..Len(c.monthGroups.at[<<first.year, first.month>>].weeks) :
                                c.monthGroups.at[<<first.year, first.month>>].weeks[i].key = k}) = 1
                /\ \A mk \in DOMAIN c.monthGroups.at : WeeksAscending(c.monthGroups.at[mk].weeks)

\* C10 witness: given out of order, a week that spans the end of January went
\* to January, after an earlier week of the same month.
C10_Witness ==
    /\ out # <<>>
    /\ Len(inp[<<"bob">>]) = 3
    /\ inp[<<"bob">>][1].date = DateString(2024, 2, 1, 9, 30)
    /\ inp[<<"bob">>][2].date = DateString(2024, 1, 31, 9, 0)
    /\ inp[<<"bob">>][3].date = DateString(2024, 1, 1, 10, 0)
    /\ DOMAIN out[1][<<"bob">>].monthGroups.at = {<<2024, 0>>}
    /\ Len(out[1][<<"bob">>].monthGroups.at[<<2024, 0>>].weeks) = 2


AscendingByTimestamp(messages) ==
    \A i \in 1..(Len(messages) - 1) : messages[i].timestamp <= messages[i + 1].timestamp

\* C11: after processConversations the messages of every conversation and of
\* every week cluster are sorted ascending by timestamp, and firstMessage and
\* lastMessage carry the least and the greatest timestamp of the conversation,
\* whatever the order of the input.
C11_SortedAfterProcessing ==
    out # <<>> =>
        \A person \in DOMAIN out[1] :
            LET c == out[1][person]
            IN  /\ AscendingByTimestamp(c.messages)
                /\ \A k \in DOMAIN c.weekClusters.at :
                        AscendingByTimestamp(c.weekClusters.at[k].messages)
                /\ c.firstMessage \in Range(inp[person])
                /\ c.lastMessage \in Range(inp[person])
                /\ \A m \in Range(inp[person]) :
                        /\ c.firstMessage.timestamp <= m.timestamp
                        /\ m.timestamp <= c.lastMessage.timestamp

\* C11 witness: three messages given latest first have been processed.
C11_Witness ==
    /\ out # <<>>
    /\ Len(inp[<<"bob">>]) = 3
    /\ inp[<<"bob">>][1].timestamp > inp[<<"bob">>][2].timestamp
    /\ inp[<<"bob">>][2].timestamp > inp[<<"bob">>][3].timestamp
    /\ out[1][<<"bob">>].firstMessage = inp[<<"bob">>][3]


(***************************************************************************)
(* Processor analytics (part_000).  Timestamps are in minutes, so a        *)
(* difference of timestamps is the code's timeDiff in minutes.             *)
(***************************************************************************)
\* Processor.getUserIdentity (part_000:13-29); userIdentity is the value of
\* window.appData.userIdentity
getUserIdentity(userIdentity, messages) ==
    IF ~Truthy(userIdentity) THEN "you"
    ELSE IF \E i \in 1..Len(messages) : messages[i].from = userIdentity.v[1]
    THEN userIdentity.v[1]
    ELSE IF Len(messages) > 0 THEN messages[1].from ELSE "you"

\* a quotient the code keeps as a floating-point number, kept exact
Ratio(num, den) == [num |-> num, den |-> den]

RECURSIVE Sum(_)
Sum(arr) == IF arr = <<>> THEN 0 ELSE Head(arr) + Sum(Tail(arr))

RECURSIVE InsertNumber(_, _)
InsertNumber(sorted, x) ==
    IF sorted = <<>> THEN <<x>>
    ELSE IF Head(sorted) - x <= 0 THEN <<Head(sorted)>> \o InsertNumber(Tail(sorted), x)
    ELSE <<x>> \o sorted

RECURSIVE SortNumbersFrom(_, _)
SortNumbersFrom(sorted, rest) ==
    IF rest = <<>> THEN sorted
    ELSE SortNumbersFrom(InsertNumber(sorted, Head(rest)), Tail(rest))

\* Processor.calculateMedian (part_000:448-458)
calculateMedian(arr) ==
    IF Len(arr) = 0 THEN Ratio(0, 1)
    ELSE LET sorted == SortNumbersFrom(<<>>, arr)
             mid == Len(sorted) \div 2
         IN  IF Len(sorted) % 2 = 0
             THEN Ratio(sorted[mid] + sorted[mid + 1], 2)
             ELSE Ratio(sorted[mid + 1], 1)

\* the gap is attributed to the sender of the earlier message
ResponderEarlier(prevMsg, currMsg) == prevMsg.from

\* currMsg.from === userIdentity (part_000:420): whose response the gap is
Responder(prevMsg, currMsg) == currMsg.from

\* the loop of calculateResponseTimes (part_000:412-427) from index i on
RECURSIVE ResponseTimesFrom(_, _, _, _)
ResponseTimesFrom(messages, userIdentity, i, responseTimes) ==
    IF i > Len(messages) THEN responseTimes
    ELSE LET prevMsg == messages[i - 1]
             currMsg == messages[i]
             timeDiff == currMsg.timestamp - prevMsg.timestamp
         IN  ResponseTimesFrom(messages, userIdentity, i + 1,
                 IF prevMsg.from # currMsg.from
                 THEN IF Responder(prevMsg, currMsg) = userIdentity
                      THEN [responseTimes EXCEPT !.you = Append(@, timeDiff)]
                      ELSE [responseTimes EXCEPT !.them = Append(@, timeDiff)]
                 ELSE responseTimes)

Average(arr) == IF Len(arr) > 0 THEN Ratio(Sum(arr), Len(arr)) ELSE Ratio(0, 1)

\* Processor.calculateResponseTimes (part_000:401-441); responseTimes is the
\* local object the averages and the medians are computed from
calculateResponseTimes(identity, messages) ==
    IF Len(messages) = 0
    THEN [yourAverage |-> Ratio(0, 1), theirAverage |-> Ratio(0, 1),
          yourMedian |-> Ratio(0, 1), theirMedian |-> Ratio(0, 1),
          responseTimes |-> [you |-> <<>>, them |-> <<>>]]
    ELSE LET responseTimes ==
                 ResponseTimesFrom(messages, getUserIdentity(identity, messages), 2,
                                   [you |-> <<>>, them |-> <<>>])
         IN  [yourAverage |-> Average(responseTimes.you),
              theirAverage |-> Average(responseTimes.them),
              yourMedian |-> calculateMedian(responseTimes.you),
              theirMedian |-> calculateMedian(responseTimes.them),
              responseTimes |-> responseTimes]

BURST_THRESHOLD == 30
MIN_BURST_SIZE == 5

Burst(currentBurst) ==
    [start |-> currentBurst[1].date,
     end |-> currentBurst[Len(currentBurst)].date,
     messageCount |-> Len(currentBurst),
     duration |-> currentBurst[Len(currentBurst)].timestamp - currentBurst[1].timestamp]

\* no run is ever recorded
PushBurstNever(bursts, currentBurst) == bursts

\* bursts.push(...) when the run is long enough (part_000:484-491, 498-504)
PushBurst(bursts, currentBurst) ==
    IF Len(currentBurst) >= MIN_BURST_SIZE THEN Append(bursts, Burst(currentBurst)) ELSE bursts

\* the loop of detectMessageBursts (part_000:472-495) from index i on
RECURSIVE BurstsFrom(_, _, _, _)
BurstsFrom(messages, i, currentBurst, bursts) ==
    IF i > Len(messages) THEN PushBurst(bursts, currentBurst)
    ELSE IF Len(currentBurst) = 0
    THEN BurstsFrom(messages, i + 1, <<messages[i]>>, bursts)
    ELSE LET lastMsg == currentBurst[Len(currentBurst)]
             timeDiff == messages[i].timestamp - lastMsg.timestamp
         IN  IF timeDiff <= BURST_THRESHOLD
             THEN BurstsFrom(messages, i + 1, Append(currentBurst, messages[i]), bursts)
             ELSE BurstsFrom(messages, i + 1, <<messages[i]>>, PushBurst(bursts, currentBurst))

\* Processor.detectMessageBursts (part_000:465-507)
detectMessageBursts(messages) == BurstsFrom(messages, 1, <<>>, <<>>)

MinutesPerDay == 1440

\* `${msg.year}-${month + 1, two digits}-${msg.day, two digits}` (part_000:528)
DateKey(msg) == <<msg.year, msg.month + 1, msg.day>>

\* the order of the keys as strings
KeyBefore(a, b) ==
    \/ a[1] < b[1]
    \/ a[1] = b[1] /\ a[2] < b[2]
    \/ a[1] = b[1] /\ a[2] = b[2] /\ a[3] < b[3]

\* Array.from(uniqueDates).sort() (part_000:532)
RECURSIVE SortedKeys(_)
SortedKeys(keys) ==
    IF keys = {} THEN <<>>
    ELSE LET least == CHOOSE k \in keys : \A other \in keys \ {k} : KeyBefore(k, other)
         IN  <<least>> \o SortedKeys(keys \ {least})

\* new Date("YYYY-MM-DD"): midnight UTC of that day, as a day number
DateOfKey(key) == MonthStart(key[1], key[2] - 1) + key[3] - 1

\* the loop of part_000:535-544 from index i on
RECURSIVE GapsFrom(_, _, _)
GapsFrom(messages, i, gaps) ==
    IF i > Len(messages) THEN gaps
    ELSE LET gapMinutes == messages[i].timestamp - messages[i - 1].timestamp
         IN  GapsFrom(messages, i + 1,
                 IF gapMinutes > MinutesPerDay
                 THEN Append(gaps, [start |-> messages[i - 1].date, end |-> messages[i].date,
                                    days |-> gapMinutes \div MinutesPerDay])
                 ELSE gaps)

\* gaps.sort((a, b) => b.days - a.days)
RECURSIVE InsertGap(_, _)
InsertGap(sorted, g) ==
    IF sorted = <<>> THEN <<g>>
    ELSE IF g.days - Head(sorted).days <= 0 THEN <<Head(sorted)>> \o InsertGap(Tail(sorted), g)
    ELSE <<g>> \o sorted

RECURSIVE SortGapsFrom(_, _)
SortGapsFrom(sorted, rest) ==
    IF rest = <<>> THEN sorted ELSE SortGapsFrom(InsertGap(sorted, Head(rest)), Tail(rest))

\* the loop of part_000:547-563: the longest run seen and the run in progress
RECURSIVE StreaksFrom(_, _, _, _)
StreaksFrom(sortedDates, i, longestStreak, tempStreak) ==
    IF i > Len(sortedDates)
    THEN IF tempStreak > longestStreak THEN tempStreak ELSE longestStreak
    ELSE LET dayDiff == DateOfKey(sortedDates[i]) - DateOfKey(sortedDates[i - 1])
         IN  IF dayDiff = 1
             THEN StreaksFrom(sortedDates, i + 1, longestStreak, tempStreak + 1)
             ELSE StreaksFrom(sortedDates, i + 1,
                              IF tempStreak > longestStreak THEN tempStreak ELSE longestStreak, 1)

\* the loop of part_000:572-582, counting backwards from index i
RECURSIVE CurrentStreakFrom(_, _, _)
CurrentStreakFrom(sortedDates, i, currentStreak) ==
    IF i <= 1 THEN currentStreak
    ELSE IF DateOfKey(sortedDates[i]) - DateOfKey(sortedDates[i - 1]) = 1
    THEN CurrentStreakFrom(sortedDates, i - 1, currentStreak + 1)
    ELSE currentStreak

\* the run at the end is counted whatever the time of the call
CurrentStreakAlways(messages, now, sortedDates) ==
    CurrentStreakFrom(sortedDates, Len(sortedDates), 1)

\* part_000:566-585; now is the instant new Date() reads
CurrentStreak(messages, now, sortedDates) ==
    LET lastDate == messages[Len(messages)].timestamp   \* the instant of .date
    IN  IF now - lastDate <= MinutesPerDay
        THEN CurrentStreakFrom(sortedDates, Len(sortedDates), 1)
        ELSE 0

RECURSIVE MaxDays(_)
MaxDays(gaps) ==
    IF gaps = <<>> THEN 0
    ELSE LET rest == MaxDays(Tail(gaps))
         IN  IF Head(gaps).days > rest THEN Head(gaps).days ELSE rest

\* the silence since the last message counts as a gap
LongestGapToNow(messages, now, gaps) ==
    LET open == (now - messages[Len(messages)].timestamp) \div MinutesPerDay
    IN  IF open > MaxDays(gaps) THEN open ELSE MaxDays(gaps)

\* gaps.length > 0 ? Math.max(...gaps.map(g => g.days)) : 0 (part_000:587)
LongestGap(messages, now, gaps) == MaxDays(gaps)

\* Processor.calculateGapsAndStreaks (part_000:514-595)
calculateGapsAndStreaks(messages, now) ==
    IF Len(messages) = 0
    THEN [longestGap |-> 0, currentStreak |-> 0, longestStreak |-> 0, gaps |-> <<>>]
    ELSE LET sortedDates == SortedKeys({DateKey(messages[i]) : i \in 1..Len(messages)})
             gaps == GapsFrom(messages, 2, <<>>)
             sorted == SortGapsFrom(<<>>, gaps)
         IN  [longestGap |-> LongestGap(messages, now, gaps),
              currentStreak |-> CurrentStreak(messages, now, sortedDates),
              longestStreak |-> StreaksFrom(sortedDates, 2, 1, 1),
              gaps |-> SubSeq(sorted, 1, IF Len(sorted) < 5 THEN Len(sorted) ELSE 5)]

\* GAP_THRESHOLD (part_000:607), in minutes
GAP_THRESHOLD == 360

\* an episode is also started by a gap of exactly the threshold
StartsEpisodeAtThreshold(messages, i) ==
    messages[i].timestamp - messages[i - 1].timestamp >= GAP_THRESHOLD

\* timeDiff > GAP_THRESHOLD (part_000:614-616)
StartsEpisode(messages, i) ==
    messages[i].timestamp - messages[i - 1].timestamp > GAP_THRESHOLD

\* ((count / total) * 100).toFixed(1): the string of the value rounded to
\* tenths, kept as the number of tenths
toFixed1(num, den) == [t |-> "string", tenths |-> (2 * 10 * num + den) \div (2 * den)]

\* Processor.calculateInitiatorScore (part_000:602-643)
calculateInitiatorScore(identity, messages) ==
    IF Len(messages) = 0
    THEN [youInitiated |-> 0, themInitiated |-> 0,
          yourPercentage |-> Num(0), theirPercentage |-> Num(0)]
    ELSE LET userIdentity == getUserIdentity(identity, messages)
             starts == {1} \cup {i \in 2..Len(messages) : StartsEpisode(messages, i)}
             youInitiated == Cardinality({i \in starts : messages[i].from = userIdentity})
             themInitiated == Cardinality({i \in starts : messages[i].from # userIdentity})
             total == youInitiated + themInitiated
         IN  [youInitiated |-> youInitiated,
              themInitiated |-> themInitiated,
              yourPercentage |-> toFixed1(youInitiated * 100, total),
              theirPercentage |-> toFixed1(themInitiated * 100, total)]

\* |x|
Abs(x) == IF x < 0 THEN -x ELSE x

\* the score is the share of "you" doubled
BalanceOneSided(youCount, total) == toFixed1(2 * 100 * youCount, total)

\* (100 - Math.abs(50 - yourPercentage) * 2).toFixed(1) (part_000:814-817)
Balance(youCount, total) == toFixed1(100 * total - 2 * Abs(50 * total - 100 * youCount), total)

\* Processor.calculateBalanceScore (part_000:791-824)
calculateBalanceScore(identity, messages) ==
    IF Len(messages) = 0
    THEN [score |-> Num(0), yourPercentage |-> Num(0), theirPercentage |-> Num(0),
          youCount |-> 0, themCount |-> 0]
    ELSE LET userIdentity == getUserIdentity(identity, messages)
             youCount == Cardinality({i \in 1..Len(messages) : messages[i].from = userIdentity})
             themCount == Len(messages) - youCount
             total == youCount + themCount
         IN  [score |-> Balance(youCount, total),
              yourPercentage |-> toFixed1(100 * youCount, total),
              theirPercentage |-> toFixed1(100 * themCount, total),
              youCount |-> youCount,
              themCount |-> themCount]

\* Processor.categorizeByActivity (part_000:754-784); now is the instant
\* Date.now() reads; each category is kept as the set of its entries
categorizeByActivity(processed, now) ==
    LET daysSinceLastMessage(person) == now - processed[person].lastMessage.timestamp
        entry(person) == [name |-> person,
                          daysSince |-> daysSinceLastMessage(person) \div MinutesPerDay,
                          lastMessage |-> processed[person].lastMessage.date]
    IN  [active |-> {entry(p) : p \in {q \in DOMAIN processed :
                            daysSinceLastMessage(q) <= 30 * MinutesPerDay}},
         recent |-> {entry(p) : p \in {q \in DOMAIN processed :
                            /\ daysSinceLastMessage(q) > 30 * MinutesPerDay
                            /\ daysSinceLastMessage(q) <= 90 * MinutesPerDay}},
         dormant |-> {entry(p) : p \in {q \in DOMAIN processed :
                            daysSinceLastMessage(q) > 90 * MinutesPerDay}}]


(***************************************************************************)
(* The sender metrics called on their own: calculateBalanceScore,          *)
(* calculateInitiatorScore and calculateResponseTimes on a time-sorted     *)
(* conversation of two senders, under a selected identity that is empty,   *)
(* one of the senders, or a sender of another conversation ("zed").        *)
(***************************************************************************)
MaxStatMsgs == 6

\* the wall-clock reading a number of minutes later
Later(date, minutes) ==
    LET total == date.min + minutes
    IN  [day |-> date.day + (total \div MinutesPerDay), min |-> total % MinutesPerDay]

MessageAt(tz, date, from) == parseMessage(tz, NoOffset, RawMsg(date, from, <<wHi>>)).v

\* the messages sent gap after gap from a first date on
RECURSIVE Timeline(_, _, _)
Timeline(tz, date, steps) ==
    IF steps = <<>> THEN <<>>
    ELSE LET at == Later(date, Head(steps).gap)
         IN  <<MessageAt(tz, at, Head(steps).from)>> \o Timeline(tz, at, Tail(steps))

Feeds(gaps, froms, n) ==
    {<<>>} \cup {<<[gap |-> 0, from |-> f]>> \o s :
                    f \in froms, s \in SeqsUpTo([gap : gaps, from : froms], n - 1)}

StatGaps == {GAP_THRESHOLD, GAP_THRESHOLD + 1}
StatSenders == {"you", "bob"}
StatIdentities == {Str(<<>>), Str(<<"you">>), Str(<<"bob">>), Str(<<"zed">>)}

InitMetrics ==
    /\ SessionIdle
    /\ hostTz = "fixed"
    /\ inp \in [identity : StatIdentities,
                messages : {Timeline("fixed", DateString(2024, 2, 5, 12, 0), s) :
                                s \in Feeds(StatGaps, StatSenders, MaxStatMsgs)}]
    /\ out = <<>>

CallBalanceScore ==
    /\ out = <<>>
    /\ out' = <<[call |-> "balance",
                 result |-> calculateBalanceScore(inp.identity, inp.messages)]>>
    /\ UNCHANGED <<sessionVars, hostTz, inp>>

CallInitiatorScore ==
    /\ out = <<>>
    /\ out' = <<[call |-> "initiator",
                 result |-> calculateInitiatorScore(inp.identity, inp.messages)]>>
    /\ UNCHANGED <<sessionVars, hostTz, inp>>

CallResponseTimes ==
    /\ out = <<>>
    /\ out' = <<[call |-> "response",
                 result |-> calculateResponseTimes(inp.identity, inp.messages)]>>
    /\ UNCHANGED <<sessionVars, hostTz, inp>>

NextMetrics == CallBalanceScore \/ CallInitiatorScore \/ CallResponseTimes

SpecMetrics == InitMetrics /\ [][NextMetrics]_vars

Called(call) == out # <<>> /\ out[1].call = call /\ Len(inp.messages) > 0

\* the messages of a conversation sent by a sender
SentBy(messages, sender) == Cardinality({i \in 1..Len(messages) : messages[i].from = sender})

\* 100 - 2 * |50 - p| for p = 100 * count / total, as the fraction over total
BalanceOver(count, total) == 100 * total - 2 * Abs(50 * total - 100 * count)

\* a number of tenths is the fraction num / den rounded to one decimal
RoundsTo(tenths, num, den) == 2 * Abs(tenths * den - 10 * num) <= den

\* C14 as stated: the balance score of a non-empty conversation equals
\* 100 - 2 * |50 - p|, p the percentage of the messages sent by the resolved
\* "you".
C14_BalanceExact ==
    Called("balance") =>
        LET total == Len(inp.messages)
            you == SentBy(inp.messages, getUserIdentity(inp.identity, inp.messages))
        IN  out[1].result.score.tenths * total = 10 * BalanceOver(you, total)

\* C14, amended: the balance score of a non-empty conversation is the string
\* of 100 - 2 * |50 - p| rounded to one decimal; it lies in 0..100, is 0 with
\* only one sender, 100 for a 50/50 split, 80 for a 3:2 split, and is the same
\* with the roles of "you" and "them" swapped.
C14_BalanceRounded ==
    Called("balance") =>
        LET total == Len(inp.messages)
            you == SentBy(inp.messages, getUserIdentity(inp.identity, inp.messages))
            score == out[1].result.score
        IN  /\ score.t = "string"
            /\ RoundsTo(score.tenths, BalanceOver(you, total), total)
            /\ score.tenths \in 0..1000
            /\ Cardinality({m.from : m \in Range(inp.messages)}) = 1 => score.tenths = 0
            /\ 2 * you = total => score.tenths = 1000
            /\ {you, total - you} = {2, 3} => score.tenths = 800
            /\ RoundsTo(score.tenths, BalanceOver(total - you, total), total)

\* C14 witness: the score of a 3:2 conversation has been computed under an
\* identity that is not one of its senders.
C14_Witness ==
    /\ Called("balance")
    /\ inp.identity = Str(<<"zed">>)
    /\ SentBy(inp.messages, "bob") = 3
    /\ SentBy(inp.messages, "you") = 2
    /\ out[1].result.score.tenths = 800


\* the messages that follow their predecessor by more than 6 hours
LongGaps(messages) ==
    {i \in 2..Len(messages) : messages[i].timestamp - messages[i - 1].timestamp > 6 * 60}

\* C17: for a non-empty time-sorted conversation, the episodes counted by
\* calculateInitiatorScore are the first message and every message more than
\* 6 hours after its predecessor (exactly 6 hours starts none); each is
\* credited to "you" when its first message is from the resolved identity and
\* to "them" otherwise, so the two counts add up to 1 + the number of such
\* gaps, and to 1 when there is none.
C17_InitiatorEpisodes ==
    Called("initiator") =>
        LET episodes == {1} \cup LongGaps(inp.messages)
            you == getUserIdentity(inp.identity, inp.messages)
        IN  /\ out[1].result.youInitiated =
                  Cardinality({i \in episodes : inp.messages[i].from = you})
            /\ out[1].result.themInitiated =
                  Cardinality({i \in episodes : inp.messages[i].from # you})
            /\ out[1].result.youInitiated + out[1].result.themInitiated =
                  1 + Cardinality(LongGaps(inp.messages))
            /\ LongGaps(inp.messages) = {} =>
                  out[1].result.youInitiated + out[1].result.themInitiated = 1

\* C17 witness: "you" wrote first, bob exactly 6 hours later and again 6 hours
\* and a minute after that: one episode each.
C17_Witness ==
    /\ Called("initiator")
    /\ inp.identity = Str(<<"you">>)
    /\ Len(inp.messages) = 3
    /\ inp.messages[1].from = "you"
    /\ inp.messages[2].from = "bob"
    /\ inp.messages[3].from = "bob"
    /\ inp.messages[2].timestamp - inp.messages[1].timestamp = 360
    /\ inp.messages[3].timestamp - inp.messages[2].timestamp = 361
    /\ out[1].result.youInitiated = 1
    /\ out[1].result.themInitiated = 1


\* the messages whose sender differs from their predecessor's
SenderChanges(messages) == {i \in 2..Len(messages) : messages[i].from # messages[i - 1].from}

GapBefore(messages, i) == messages[i].timestamp - messages[i - 1].timestamp

RECURSIVE SumOfGaps(_, _)
SumOfGaps(messages, events) ==
    IF events = {} THEN 0
    ELSE LET i == CHOOSE e \in events : TRUE
         IN  GapBefore(messages, i) + SumOfGaps(messages, events \ {i})

\* the gap of a given rank among the gaps of the events, counted from the least
GapOfRank(messages, events, rank) ==
    CHOOSE g \in {GapBefore(messages, i) : i \in events} :
        /\ Cardinality({i \in events : GapBefore(messages, i) < g}) < rank
        /\ Cardinality({i \in events : GapBefore(messages, i) <= g}) >= rank

\* a quotient is the mean of the gaps of the events, 0 when there is none
MeanOf(ratio, messages, events) ==
    IF events = {} THEN ratio.num = 0
    ELSE ratio.num * Cardinality(events) = SumOfGaps(messages, events) * ratio.den

\* a quotient is the median of the gaps of the events, 0 when there is none
MedianOf(ratio, messages, events) ==
    IF events = {} THEN ratio.num = 0
    ELSE LET k == Cardinality(events)
         IN  2 * ratio.num = ratio.den * (GapOfRank(messages, events, (k + 1) \div 2)
                                          + GapOfRank(messages, events, (k \div 2) + 1))

\* C18: calculateResponseTimes records one event for every adjacent pair of
\* messages with different senders and none for the others; the gap in minutes
\* goes to "you" exactly when the later message is from the resolved identity
\* and to "them" otherwise, so the events of the two sides number the sender
\* changes, and each side's mean and median are those of its own events (0
\* when it has none).
C18_ResponseTimes ==
    Called("response") =>
        LET you == getUserIdentity(inp.identity, inp.messages)
            changes == SenderChanges(inp.messages)
            yours == {i \in changes : inp.messages[i].from = you}
            theirs == changes \ yours
            r == out[1].result
        IN  /\ Len(r.responseTimes.you) = Cardinality(yours)
            /\ Len(r.responseTimes.them) = Cardinality(theirs)
            /\ Len(r.responseTimes.you) + Len(r.responseTimes.them) = Cardinality(changes)
            /\ MeanOf(r.yourAverage, inp.messages, yours)
            /\ MeanOf(r.theirAverage, inp.messages, theirs)
            /\ MedianOf(r.yourMedian, inp.messages, yours)
            /\ MedianOf(r.theirMedian, inp.messages, theirs)

\* C18 witness: bob and "you" alternate over six messages, bob first, and a
\* same-sender pair is absent: three answers of "you", two of bob, with gaps
\* of both lengths among the answers of "you".
C18_Witness ==
    /\ Called("response")
    /\ inp.identity = Str(<<"you">>)
    /\ Len(inp.messages) = 6
    /\ inp.messages[1].from = "bob"
    /\ SenderChanges(inp.messages) = 2..6
    /\ Len(out[1].result.responseTimes.you) = 3
    /\ Len(out[1].result.responseTimes.them) = 2
    /\ Sum(out[1].result.responseTimes.you) = 360 + 361 + 361
    /\ out[1].result.yourMedian = Ratio(361, 1)


(***************************************************************************)
(* detectMessageBursts called on its own, on the messages of one sender    *)
(* that follow each other by exactly the threshold or by a minute more.    *)
(***************************************************************************)
MaxBurstMsgs == 10

BurstGaps == {BURST_THRESHOLD, BURST_THRESHOLD + 1}

InitBursts ==
    /\ SessionIdle
    /\ hostTz = "fixed"
    /\ inp \in {Timeline("fixed", DateString(2024, 2, 5, 12, 0), s) :
                    s \in Feeds(BurstGaps, {"bob"}, MaxBurstMsgs)}
    /\ out = <<>>

CallDetectMessageBursts ==
    /\ out = <<>>
    /\ out' = <<detectMessageBursts(inp)>>
    /\ UNCHANGED <<sessionVars, hostTz, inp>>

NextBursts == CallDetectMessageBursts

SpecBursts == InitBursts /\ [][NextBursts]_vars

\* the gap of message k to its predecessor is at most 30 minutes
Close(messages, k) == messages[k].timestamp - messages[k - 1].timestamp <= 30

\* the maximal runs of messages each close to its predecessor, as <<first, last>>
MaximalRuns(messages) ==
    {r \in (1..Len(messages)) \X (1..Len(messages)) :
        /\ r[1] <= r[2]
        /\ \A k \in (r[1] + 1)..r[2] : Close(messages, k)
        /\ r[1] = 1 \/ ~Close(messages, r[1])
        /\ r[2] = Len(messages) \/ ~Close(messages, r[2] + 1)}

LongRuns(messages) == {r \in MaximalRuns(messages) : r[2] - r[1] + 1 >= 5}

\* the i-th of the long runs in chronological order
LongRun(messages, i) ==
    CHOOSE r \in LongRuns(messages) :
        Cardinality({q \in LongRuns(messages) : q[1] < r[1]}) = i - 1

\* C15: detectMessageBursts on a time-sorted list returns, in chronological
\* order, exactly the maximal runs of at least 5 messages in which every gap to
\* the predecessor is at most 30 minutes, each with its number of members and
\* the time from its first to its last message; a gap of more than 30 minutes
\* never lies inside a burst.
C15_BurstsAreMaximalRuns ==
    out # <<>> =>
        /\ Len(out[1]) = Cardinality(LongRuns(inp))
        /\ \A i \in 1..Len(out[1]) :
              LET r == LongRun(inp, i)
              IN  /\ out[1][i].messageCount = r[2] - r[1] + 1
                  /\ out[1][i].duration = inp[r[2]].timestamp - inp[r[1]].timestamp
                  /\ out[1][i].start = inp[r[1]].date
                  /\ out[1][i].end = inp[r[2]].date
                  /\ i > 1 => LongRun(inp, i - 1)[2] < r[1]
        /\ Len(inp) = 5 /\ (\A k \in 2..5 : Close(inp, k)) =>
              Len(out[1]) = 1 /\ out[1][1].messageCount = 5
        /\ Len(inp) = 4 => out[1] = <<>>

\* C15 witness: a run of 4 and a run of exactly 5 separated by a gap of 31
\* minutes gave one burst, of count 5.
C15_Witness ==
    /\ out # <<>>
    /\ Len(inp) = 9
    /\ MaximalRuns(inp) = {<<1, 4>>, <<5, 9>>}
    /\ Len(out[1]) = 1
    /\ out[1][1].messageCount = 5
    /\ out[1][1].duration = 4 * 30


(***************************************************************************)
(* calculateGapsAndStreaks called on its own: messages an hour, a day, two *)
(* days or a week of wall-clock time apart, from late February of a leap   *)
(* year or from the end of March (where the daylight-saving hour of the    *)
(* host changes), with the clock at, a day after, a day and a minute       *)
(* after, or long after the last message.                                  *)
(***************************************************************************)
MaxStreakMsgs == 4

StreakGaps == {60, MinutesPerDay, 2 * MinutesPerDay, 7 * MinutesPerDay}
StreakStarts == {DateString(2024, 2, 27, 23, 30), DateString(2024, 3, 30, 12, 0)}
ClockLags == {0, MinutesPerDay, MinutesPerDay + 1, 70 * MinutesPerDay}

\* the messages with the clock a lag after the last of them
Clocked(messages, start, lag) ==
    [messages |-> messages,
     now |-> lag + (IF messages = <<>> THEN start ELSE messages[Len(messages)].timestamp)]

StreakInputs(tz) ==
    {Clocked(Timeline(tz, start, s), valueOf(tz, start), lag) :
        start \in StreakStarts, lag \in ClockLags,
        s \in Feeds(StreakGaps, {"bob"}, MaxStreakMsgs)}

InitStreaks ==
    /\ SessionIdle
    /\ hostTz \in TzProfiles
    /\ inp \in StreakInputs(hostTz)
    /\ out = <<>>

CallGapsAndStreaks ==
    /\ out = <<>>
    /\ out' = <<calculateGapsAndStreaks(inp.messages, inp.now)>>
    /\ UNCHANGED <<sessionVars, hostTz, inp>>

NextStreaks == CallGapsAndStreaks

SpecStreaks == InitStreaks /\ [][NextStreaks]_vars

\* the calendar days with at least one message
MessageDays(messages) == {messages[i].date.day : i \in 1..Len(messages)}

\* the runs of consecutive calendar days each with a message, as <<first, last>>
DayRuns(messages) ==
    {r \in MessageDays(messages) \X MessageDays(messages) :
        r[1] <= r[2] /\ \A d \in r[1]..r[2] : d \in MessageDays(messages)}

\* C16: for a non-empty time-sorted list, longestStreak is the length of the
\* longest run of consecutive calendar days each with a message; currentStreak
\* is 0 when the last message is more than one day before now, and otherwise
\* the length of the run of consecutive days that ends on the last message's
\* day.
C16_Streaks ==
    out # <<>> /\ inp.messages # <<>> =>
        LET runs == DayRuns(inp.messages)
            lastMessage == inp.messages[Len(inp.messages)]
        IN  /\ \E r \in runs : out[1].longestStreak = r[2] - r[1] + 1
            /\ \A r \in runs : r[2] - r[1] + 1 <= out[1].longestStreak
            /\ inp.now - lastMessage.timestamp > 1440 => out[1].currentStreak = 0
            /\ inp.now - lastMessage.timestamp <= 1440 =>
                  /\ <<lastMessage.date.day - out[1].currentStreak + 1,
                       lastMessage.date.day>> \in runs
                  /\ (lastMessage.date.day - out[1].currentStreak) \notin
                        MessageDays(inp.messages)

\* C16 witness: messages on three consecutive days and a week later, the
\* clock long after the last: longest streak 3, current streak 0.
C16_Witness ==
    /\ out # <<>>
    /\ Len(inp.messages) = 4
    /\ LET first == inp.messages[1].date.day
       IN  MessageDays(inp.messages) = {first, first + 1, first + 2, first + 9}
    /\ inp.now - inp.messages[4].timestamp > 1440
    /\ out[1].longestStreak = 3
    /\ out[1].currentStreak = 0


(***************************************************************************)
(* The session (part_003).  The uploaded files:                            *)
(***************************************************************************)
Json(value) == [t |-> "string", json |-> TRUE, value |-> value]
Data(depth, chat) == [t |-> "object", depth |-> depth, chat |-> chat]
Entry(key, items) == [key |-> key, value |-> [t |-> "array", items |-> items]]
Key(name) == <<Prefix, name, Colon>>
Element(date, from, content) == [t |-> "object", Date |-> date, From |-> from, Content |-> content]

\* text that is not JSON
FileGarbage == [t |-> "string", json |-> FALSE, value |-> Null]
\* { "Direct Message": { "Direct Messages": {} } }
FileNoChatHistory == Json(Data(2, <<>>))
\* a conversation key without the prefix
FileBadKey ==
    Json(Data(3, <<Entry(<<"Conversation with ", "bob", Colon>>,
                         <<RawMsg(DateString(2024, 1, 31, 9, 0), "bob", <<wHi>>)>>)>>))
\* one conversation with bob: two messages of bob's, one of "you", out of order
FileBob ==
    Json(Data(3, <<Entry(Key("bob"),
                         <<RawMsg(DateString(2024, 2, 1, 9, 30), "bob", <<wLink>>),
                           RawMsg(DateString(2024, 1, 31, 9, 0), "you", <<wHi>>),
                           RawMsg(DateString(2024, 12, 30, 8, 0), "bob", <<wHi>>)>>)>>))
\* one conversation with amy, whose senders are amy and zed
FileAmy ==
    Json(Data(3, <<Entry(Key("amy"),
                         <<RawMsg(DateString(2025, 1, 1, 20, 0), "zed", <<wHi>>),
                           RawMsg(DateString(2025, 1, 2, 8, 0), "amy", <<wSticker>>)>>)>>))
\* elements that fail validation among valid ones: no Date, Date "", no From,
\* From "", no Content, and a number in place of an object
FileDropped ==
    Json(Data(3, <<Entry(Key("bob"),
                         <<RawMsg(DateString(2024, 1, 31, 9, 0), "you", <<wHi>>),
                           Element(Undefined, Str(<<"bob">>), Str(<<wHi>>)),
                           Element(Str(<<>>), Str(<<"bob">>), Str(<<wHi>>)),
                           Element(Str(<<DateString(2024, 2, 1, 9, 0)>>), Undefined, Str(<<wHi>>)),
                           Element(Str(<<DateString(2024, 2, 1, 9, 0)>>), Str(<<>>), Str(<<wHi>>)),
                           Element(Str(<<DateString(2024, 2, 1, 9, 0)>>), Str(<<"bob">>), Undefined),
                           Num(7),
                           RawMsg(DateString(2024, 2, 5, 12, 0), "bob", <<>>)>>)>>))
\* a null among the elements
FileNullElement ==
    Json(Data(3, <<Entry(Key("bob"),
                         <<RawMsg(DateString(2024, 1, 31, 9, 0), "you", <<wHi>>),
                           Null,
                           RawMsg(DateString(2024, 2, 5, 12, 0), "bob", <<wHi>>)>>)>>))
\* a Date that is a number, not a string
FileNumberDate ==
    Json(Data(3, <<Entry(Key("bob"),
                         <<RawMsg(DateString(2024, 1, 31, 9, 0), "you", <<wHi>>),
                           Element(Num(20240201), Str(<<"bob">>), Str(<<wHi>>))>>)>>))

Files == {FileGarbage, FileNoChatHistory, FileBadKey, FileBob, FileAmy,
          FileDropped, FileNullElement, FileNumberDate}

(***************************************************************************)
(* extractAllSenders (part_003:239-257).  The sorted array of the distinct *)
(* senders is given by their set.                                          *)
(***************************************************************************)
ArraysOf(data) ==
    IF data.t = "object"
    THEN {data.chat[i].value.items : i \in {j \in 1..Len(data.chat) : data.chat[j].value.t = "array"}}
    ELSE {}

\* the truthy From values of one array
SendersIn(items) ==
    {items[i].From.v[1] : i \in {j \in 1..Len(items) : items[j].t = "object" /\ Truthy(items[j].From)}}

extractAllSenders(data) == UNION {SendersIn(items) : items \in ArraysOf(data)}

(***************************************************************************)
(* calculateSenderPresence (part_003:190-234) and the auto-selection of    *)
(* showUploadSuccess (part_003:143-174)                                    *)
(***************************************************************************)
\* obj.length > 0 && obj[0].From
IsConversation(items) == Len(items) > 0 /\ items[1].t = "object" /\ Truthy(items[1].From)

\* obj[0].From and msg.From throw on null
PresenceThrows(data) ==
    \E items \in ArraysOf(data) :
        \/ Len(items) > 0 /\ items[1].t = "null"
        \/ IsConversation(items) /\ \E i \in 1..Len(items) : items[i].t = "null"

ConversationsOf(data) ==
    IF data.t = "object"
    THEN {i \in 1..Len(data.chat) :
            data.chat[i].value.t = "array" /\ IsConversation(data.chat[i].value.items)}
    ELSE {}

PresenceCount(data, sender) ==
    Cardinality({i \in ConversationsOf(data) : sender \in SendersIn(data.chat[i].value.items)})

\* the place of a sender in Object.entries(senderCounts): first conversation,
\* then first message, in which it occurs
FirstSeen(data, sender) ==
    LET c == CHOOSE i \in ConversationsOf(data) :
                /\ sender \in SendersIn(data.chat[i].value.items)
                /\ \A j \in ConversationsOf(data) :
                        sender \in SendersIn(data.chat[j].value.items) => i <= j
        items == data.chat[c].value.items
        m == CHOOSE i \in 1..Len(items) :
                /\ items[i].t = "object" /\ Truthy(items[i].From) /\ items[i].From.v[1] = sender
                /\ \A j \in 1..(i - 1) : ~(items[j].t = "object" /\ Truthy(items[j].From)
                                            /\ items[j].From.v[1] = sender)
    IN  <<c, m>>

Before(p, q) == p[1] < q[1] \/ (p[1] = q[1] /\ p[2] < q[2])

\* count >= totalConversations * 0.8
Candidates(data) ==
    {sender \in extractAllSenders(data) :
        /\ PresenceCount(data, sender) > 0
        /\ 10 * PresenceCount(data, sender) >= 8 * Cardinality(ConversationsOf(data))}

\* candidates.sort((a, b) => b[1] - a[1])[0][0]
TopCandidate(data) ==
    CHOOSE sender \in Candidates(data) :
        \A other \in Candidates(data) \ {sender} :
            \/ PresenceCount(data, sender) > PresenceCount(data, other)
            \/ /\ PresenceCount(data, sender) = PresenceCount(data, other)
               /\ Before(FirstSeen(data, sender), FirstSeen(data, other))

(***************************************************************************)
(* handleFiles (part_003:87-115) hands the file to a FileReader; the drop  *)
(* zone and the file input are on the upload page.  inp.reading holds the  *)
(* file while it is being read, one file at a time.                        *)
(***************************************************************************)
handleFiles(file) ==
    /\ page = "upload"
    /\ inp.reading = {}
    /\ inp.reads < MaxUploads
    /\ inp' = [inp EXCEPT !.reading = {file}, !.reads = @ + 1]
    /\ UNCHANGED <<sessionVars, hostTz, out>>

(***************************************************************************)
(* reader.onload / showUploadSuccess (part_003:105-183), run when the read *)
(* has finished; it tests neither the page shown nor a run in progress.    *)
(***************************************************************************)
Upload(file) ==
    /\ inp.reading = {file}
    /\ inp' = [inp EXCEPT !.reading = {}]
    /\ preUpload' = appData
    /\ LET parsed == JSONparse(file)
           loaded == [appData EXCEPT !.rawData = file]
       IN  IF ~parsed.ok
           THEN /\ appData' = loaded
                /\ toast' = <<"Error analyzing file structure">>
                /\ lastEvent' = "upload-failed"
                /\ UNCHANGED controlsShown
           ELSE LET data == parsed.v
                    senders == extractAllSenders(data)
                    withSenders == [loaded EXCEPT !.allSenders = senders]
                IN  IF "you" \in senders
                    THEN /\ appData' = [withSenders EXCEPT !.userIdentity = Str(<<"you">>)]
                         /\ toast' = <<"Auto-selected ", "you">>
                         /\ controlsShown' = TRUE
                         /\ lastEvent' = "upload-ok"
                    ELSE IF PresenceThrows(data)
                    THEN /\ appData' = withSenders
                         /\ toast' = <<"Error analyzing file structure">>
                         /\ lastEvent' = "upload-failed"
                         /\ UNCHANGED controlsShown
                    ELSE IF Candidates(data) # {}
                    THEN /\ appData' = [withSenders EXCEPT
                                           !.userIdentity = Str(<<TopCandidate(data)>>)]
                         /\ toast' = <<"Auto-selected ", TopCandidate(data)>>
                         /\ controlsShown' = TRUE
                         /\ lastEvent' = "upload-ok"
                    ELSE /\ appData' = withSenders
                         /\ controlsShown' = TRUE
                         /\ lastEvent' = "upload-ok"
                         /\ UNCHANGED toast
    /\ UNCHANGED <<convoHelper, pc, runData, page, hostTz, out>>

(***************************************************************************)
(* The identity selector's change listener (part_003:265-270); its options *)
(* are the empty value and the senders of the last file parsed.  The       *)
(* listener tests neither the page shown nor a run in progress.            *)
(***************************************************************************)
SelectIdentity(value) ==
    /\ controlsShown
    /\ value = <<>> \/ (Len(value) = 1 /\ value[1] \in appData.allSenders)
    /\ appData' = [appData EXCEPT !.userIdentity = Str(value)]
    /\ toast' = IF value # <<>> THEN <<"Identity set to: ", value[1]>> ELSE toast
    /\ lastEvent' = "identity"
    /\ UNCHANGED <<convoHelper, pc, runData, page, controlsShown, preUpload, hostTz, inp, out>>

(***************************************************************************)
(* DateRangeFilter: the timezone selector's change listener,               *)
(* applyTimezone and getTimezoneOffset (part_007:287-325)                  *)
(***************************************************************************)
\* two of the selector's options
TimezoneChoices == {"gmt+0", "gmt+7"}

getTimezoneOffset(currentTimezone) ==
    IF currentTimezone = "auto" THEN 0
    ELSE IF currentTimezone = "gmt+7" THEN 7
    ELSE 0

\* window.currentPerson is never set and StatsGeneral has no renderStats: the
\* call of part_007:311 throws once the offset is stored, before the toast
applyTimezone(currentTimezone) ==
    /\ currentTimezone \in TimezoneChoices
    /\ convoHelper' = [t |-> "object", timezoneOffset |-> getTimezoneOffset(currentTimezone)]
    /\ lastEvent' = "timezone"
    /\ UNCHANGED <<appData, pc, runData, toast, page, controlsShown, preUpload, hostTz, inp, out>>

(***************************************************************************)
(* Stats.generateOverviewStats (part_005:95-109): the totals               *)
(***************************************************************************)
RECURSIVE SumLens(_, _)
SumLens(processed, persons) ==
    IF persons = {} THEN 0
    ELSE LET person == CHOOSE x \in persons : TRUE
         IN  processed[person].totalMessages + SumLens(processed, persons \ {person})

generateOverviewStats(processed) ==
    [totalMessages |-> SumLens(processed, DOMAIN processed),
     totalConversations |-> Cardinality(DOMAIN processed)]

(***************************************************************************)
(* processData (part_003:315-376), one action per stretch between two      *)
(* awaits                                                                  *)
(***************************************************************************)
\* the catch block
Fail(error, event) ==
    /\ toast' = <<"Error processing data: ">> \o error.message
    /\ page' = "upload"
    /\ pc' = "idle"
    /\ runData' = Null
    /\ lastEvent' = event

StartProcess ==
    /\ page = "upload"
    /\ pc = "idle"
    /\ controlsShown
    /\ IF ~Truthy(appData.userIdentity)
       THEN /\ toast' = <<"Please select your identity first">>
            /\ lastEvent' = "refused"
            /\ UNCHANGED <<page, pc>>
       ELSE /\ page' = "processing"
            /\ pc' = "parse"
            /\ lastEvent' = "started"
            /\ UNCHANGED toast
    /\ UNCHANGED <<appData, convoHelper, runData, controlsShown, preUpload, hostTz, inp, out>>

StepParse ==
    /\ pc = "parse"
    /\ LET data == parseJSON(appData.rawData)
       IN  IF data.ok
           THEN /\ runData' = data.v
                /\ pc' = "extract"
                /\ lastEvent' = "parse-ok"
                /\ UNCHANGED <<toast, page>>
           ELSE Fail(data.err, "parse-failed")
    /\ UNCHANGED <<appData, convoHelper, controlsShown, preUpload, hostTz, inp, out>>

StepExtract ==
    /\ pc = "extract"
    /\ LET conversations == extractConversations(hostTz, convoHelper, runData)
       IN  IF conversations.ok
           THEN /\ appData' = [appData EXCEPT !.conversations = conversations.v]
                /\ pc' = "cluster"
                /\ lastEvent' = "extract-ok"
                /\ UNCHANGED <<toast, page, runData>>
           ELSE /\ Fail(conversations.err, "extract-failed")
                /\ UNCHANGED appData
    /\ UNCHANGED <<convoHelper, controlsShown, preUpload, hostTz, inp, out>>

StepCluster ==
    /\ pc = "cluster"
    /\ appData' = [appData EXCEPT !.processed = processConversations(appData.conversations),
                                  !.conversations = SortedInPlace(appData.conversations)]
    /\ pc' = "stats"
    /\ lastEvent' = "cluster-ok"
    /\ UNCHANGED <<convoHelper, runData, toast, page, controlsShown, preUpload, hostTz, inp, out>>

StepStats ==
    /\ pc = "stats"
    /\ appData' = [appData EXCEPT !.overviewStats = generateOverviewStats(appData.processed)]
    /\ pc' = "finish"
    /\ lastEvent' = "stats-ok"
    /\ UNCHANGED <<convoHelper, runData, toast, page, controlsShown, preUpload, hostTz, inp, out>>

StepFinish ==
    /\ pc = "finish"
    /\ page' = "overview"
    /\ toast' = <<"Processing complete!">>
    /\ pc' = "idle"
    /\ runData' = Null
    /\ lastEvent' = "process-ok"
    /\ UNCHANGED <<appData, convoHelper, controlsShown, preUpload, hostTz, inp, out>>

\* StatsIndividual.generateEnhancedPersonStats (stats-individual.js:13-30):
\* the statistics the Processor computes
generateEnhancedPersonStats(identity, processedData, now) ==
    [responseTimes |-> calculateResponseTimes(identity, processedData.messages),
     initiatorScore |-> calculateInitiatorScore(identity, processedData.messages),
     messageBursts |-> detectMessageBursts(processedData.messages),
     gapsAndStreaks |-> calculateGapsAndStreaks(processedData.messages, now),
     balanceScore |-> calculateBalanceScore(identity, processedData.messages)]

\* instants the clock may show: hours, weeks and months after the last
\* message of the uploaded files
Nows ==
    {valueOf("fixed", DateString(2025, 1, 2, 12, 0)),
     valueOf("fixed", DateString(2025, 1, 20, 12, 0)),
     valueOf("fixed", DateString(2025, 6, 1, 12, 0))}

(***************************************************************************)
(* UI.viewPerson (ui.js:239-245), called by the person jumper and the      *)
(* person switcher (part_003:288-300), whose options are the conversations *)
(* listed once processing has finished; now is the instant the clock       *)
(* shows.  inp is the state of the UI object and of the export timeline;   *)
(* out keeps the statistics computed last, with the selected identity they *)
(* were computed under.                                                    *)
(***************************************************************************)

viewPerson(personName, now) ==
    /\ page \in {"overview", "individual", "export"}
    /\ personName \in DOMAIN appData.processed
    /\ page' = "individual"
    /\ inp' = [inp EXCEPT !.currentPerson = Str(personName)]
    /\ out' = <<[kind |-> "view",
                 person |-> personName,
                 userIdentity |-> appData.userIdentity,
                 enhancedStats |-> generateEnhancedPersonStats(
                                       appData.userIdentity,
                                       appData.processed[personName], now)]>>
    /\ lastEvent' = "view"
    /\ UNCHANGED <<appData, convoHelper, pc, runData, toast, controlsShown, preUpload, hostTz>>

Init ==
    /\ SessionIdle
    /\ hostTz = "fixed"
    /\ inp = UiIdle
    /\ out = <<>>

Next ==
    \/ \E file \in Files : handleFiles(file)
    \/ \E file \in Files : Upload(file)
    \/ \E value \in {<<>>} \cup {<<sender>> : sender \in appData.allSenders} : SelectIdentity(value)
    \/ \E currentTimezone \in TimezoneChoices : applyTimezone(currentTimezone)
    \/ StartProcess
    \/ StepParse
    \/ StepExtract
    \/ StepCluster
    \/ StepStats
    \/ StepFinish
    \/ \E personName \in {<<"bob">>, <<"amy">>}, now \in Nows : viewPerson(personName, now)

Spec == Init /\ [][Next]_vars

(***************************************************************************)
(* The export page (ui.js:477-568, part_003:401-423) and the Exporter      *)
(* (part_008).  A report is kept as the parts of its Markdown text: the    *)
(* header, the message lines grouped by date, the counts of the statistics *)
(* block and the export date; the average per day is left out.             *)
(***************************************************************************)
\* Parser.formatDate (parser.js:250-254) of a local day number
formatDate(d) == <<getMonthName(getMonth(d)), getDate(d), getFullYear(d)>>

\* Parser.formatDateRange (parser.js:262-268)
formatDateRange(start, end) ==
    IF getFullYear(start) = getFullYear(end) /\ getMonth(start) = getMonth(end)
    THEN <<formatDate(start), " - ", getDate(end)>>
    ELSE <<formatDate(start), " - ", formatDate(end)>>

\* `**${time}** - [**${msg.from}**]: ${msg.content}` (part_008:60-62)
MessageLine(msg) ==
    [time |-> <<msg.hour, msg.date.min % 60>>, from |-> msg.from, content |-> msg.content]

\* byDate[dateKey].push(msg), the keys in the order of their first message
\* (part_008:47-54)
RECURSIVE GroupByDate(_, _)
GroupByDate(byDate, messages) ==
    IF messages = <<>> THEN byDate
    ELSE LET msg == Head(messages)
             dateKey == formatDate(msg.date.day)
             old == IF HasKey(byDate, dateKey) THEN byDate.at[dateKey] ELSE <<>>
         IN  GroupByDate(Put(byDate, dateKey, Append(old, MessageLine(msg))), Tail(messages))

\* Exporter.generateWeekMarkdown (part_008:36-103); today is the date the
\* clock shows
generateWeekMarkdown(personName, week, today) ==
    [title |-> personName,
     weekNum |-> week.week,
     year |-> week.year,
     totalMessages |-> Len(week.messages),
     dateRange |-> formatDateRange(week.dateRange.start, week.dateRange.end),
     byDate |-> GroupByDate(EmptyObject, week.messages),
     bySender |-> [sender \in {m.from : m \in Range(week.messages)} |->
                      SentBy(week.messages, sender)],
     types |-> [type \in {"text", "link", "media", "sticker", "empty"} |->
                   Cardinality({i \in 1..Len(week.messages) : week.messages[i].type = type})],
     exportDate |-> today]

\* every week of the conversation is exported
ExportedWeeksAll(weekClusters, selectedWeeks) == DOMAIN weekClusters.at

\* const week = weekClusters[weekKey]; if (!week) continue (part_008:18-20)
ExportedWeeks(weekClusters, selectedWeeks) ==
    {weekKey \in selectedWeeks : HasKey(weekClusters, weekKey)}

\* Exporter.exportToZip (part_008:14-28): the files of the archive, by name
exportToZip(personName, processedData, selectedWeeks, today) ==
    {[filename |-> <<personName, "_", weekKey, ".md">>,
      markdown |-> generateWeekMarkdown(personName,
                                        processedData.weekClusters.at[weekKey], today)] :
        weekKey \in ExportedWeeks(processedData.weekClusters, selectedWeeks)}

\* two conversations: bob's has three week clusters, amy's one that bob's
\* has too and one that it has not
FileBobAndAmy ==
    Json(Data(3, <<Entry(Key("bob"),
                         <<RawMsg(DateString(2024, 1, 31, 9, 0), "you", <<wHi>>),
                           RawMsg(DateString(2024, 2, 1, 9, 30), "bob", <<wLink>>),
                           RawMsg(DateString(2024, 2, 5, 12, 0), "bob", <<wSticker>>),
                           RawMsg(DateString(2024, 2, 12, 7, 5), "you", <<>>)>>),
                   Entry(Key("amy"),
                         <<RawMsg(DateString(2024, 2, 6, 20, 0), "amy", <<wHi>>),
                           RawMsg(DateString(2024, 3, 1, 8, 0), "you", <<wHi>>)>>)>>))

ExportFiles == {FileBob, FileBobAndAmy}

\* the session as processData leaves it (part_003:325-368) for a file
Processed(file) ==
    LET conversations == extractConversations("fixed", NoOffset, parseJSON(file).v).v
        processed == processConversations(conversations)
    IN  [rawData |-> file,
         conversations |-> SortedInPlace(conversations),
         processed |-> processed,
         overviewStats |-> generateOverviewStats(processed),
         userIdentity |-> Str(<<"you">>),
         allSenders |-> extractAllSenders(JSONparse(file).v)]

InitExport ==
    /\ appData \in {Processed(file) : file \in ExportFiles}
    /\ convoHelper = NoOffset
    /\ pc = "idle"
    /\ runData = Null
    /\ toast = <<"Processing complete!">>
    /\ page = "overview"
    /\ controlsShown = TRUE
    /\ preUpload = InitAppData
    /\ lastEvent = "process-ok"
    /\ hostTz = "fixed"
    /\ inp = UiIdle
    /\ out = <<>>

\* the week checkboxes populateExportTimeline creates (ui.js:495-534)
TimelineOf(monthGroups) ==
    UNION {{[week |-> monthGroups.at[monthKey].weeks[i].key, month |-> monthKey] :
                i \in 1..Len(monthGroups.at[monthKey].weeks)} :
           monthKey \in DOMAIN monthGroups.at}

\* UI.updateExportSummary (ui.js:580-595)
RECURSIVE SummaryMessages(_, _)
SummaryMessages(weekClusters, selectedWeeks) ==
    IF selectedWeeks = {} THEN 0
    ELSE LET weekKey == CHOOSE k \in selectedWeeks : TRUE
         IN  (IF HasKey(weekClusters, weekKey) THEN weekClusters.at[weekKey].count ELSE 0)
             + SummaryMessages(weekClusters, selectedWeeks \ {weekKey})

updateExportSummary(currentPerson, selectedWeeks) ==
    [weeks |-> Cardinality(selectedWeeks),
     messages |-> SummaryMessages(appData.processed[currentPerson].weekClusters, selectedWeeks),
     files |-> Cardinality(selectedWeeks)]

\* UI.gotoExport (ui.js:477-489)
gotoExport ==
    /\ Truthy(inp.currentPerson)
    /\ page' = "export"
    /\ inp' = [inp EXCEPT !.selectedWeeks = {},
                          !.timeline = TimelineOf(appData.processed[inp.currentPerson.v].monthGroups),
                          !.weekChecks = {},
                          !.monthChecks = {},
                          !.summary = updateExportSummary(inp.currentPerson.v, {})]
    /\ lastEvent' = "goto-export"
    /\ UNCHANGED <<appData, convoHelper, pc, runData, toast, controlsShown, preUpload,
                   hostTz, out>>

\* the month checkbox keeps its state
MonthCheckKept(monthChecks, monthKey, checked) == monthChecks

\* monthCheck.checked = false when a week is unchecked (ui.js:565)
MonthCheckAfterWeek(monthChecks, monthKey, checked) ==
    IF checked THEN monthChecks ELSE monthChecks \ {monthKey}

\* a click on a week checkbox flips it; then its change listener runs
\* (ui.js:559-568)
ToggleWeek(weekKey) ==
    /\ page = "export"
    /\ \E box \in inp.timeline : box.week = weekKey
    /\ LET checked == weekKey \notin inp.weekChecks
           monthKey == (CHOOSE box \in inp.timeline : box.week = weekKey).month
           selectedWeeks == IF checked THEN inp.selectedWeeks \cup {weekKey}
                            ELSE inp.selectedWeeks \ {weekKey}
       IN  inp' = [inp EXCEPT
                      !.weekChecks = IF checked THEN @ \cup {weekKey} ELSE @ \ {weekKey},
                      !.selectedWeeks = selectedWeeks,
                      !.monthChecks = MonthCheckAfterWeek(@, monthKey, checked),
                      !.summary = updateExportSummary(inp.currentPerson.v, selectedWeeks)]
    /\ lastEvent' = "toggle-week"
    /\ UNCHANGED <<appData, convoHelper, pc, runData, toast, page, controlsShown, preUpload,
                   hostTz, out>>

\* a click on a month checkbox flips it; then its change listener runs
\* (ui.js:544-556)
ToggleMonth(monthKey) ==
    /\ page = "export"
    /\ \E box \in inp.timeline : box.month = monthKey
    /\ LET checked == monthKey \notin inp.monthChecks
           weeks == {box.week : box \in {b \in inp.timeline : b.month = monthKey}}
           selectedWeeks == IF checked THEN inp.selectedWeeks \cup weeks
                            ELSE inp.selectedWeeks \ weeks
       IN  inp' = [inp EXCEPT
                      !.monthChecks = IF checked THEN @ \cup {monthKey} ELSE @ \ {monthKey},
                      !.weekChecks = IF checked THEN @ \cup weeks ELSE @ \ weeks,
                      !.selectedWeeks = selectedWeeks,
                      !.summary = updateExportSummary(inp.currentPerson.v, selectedWeeks)]
    /\ lastEvent' = "toggle-month"
    /\ UNCHANGED <<appData, convoHelper, pc, runData, toast, page, controlsShown, preUpload,
                   hostTz, out>>

\* exportConversation (part_003:401-423); out keeps the download with the
\* arguments of exportToZip it was made from
exportConversation(now) ==
    /\ IF inp.selectedWeeks = {}
       THEN /\ toast' = <<"Please select at least one week">>
            /\ lastEvent' = "export-refused"
            /\ UNCHANGED out
       ELSE /\ out' = <<[kind |-> "export",
                         person |-> inp.currentPerson.v,
                         selectedWeeks |-> inp.selectedWeeks,
                         filename |-> <<inp.currentPerson.v, "_export.zip">>,
                         files |-> exportToZip(inp.currentPerson.v,
                                               appData.processed[inp.currentPerson.v],
                                               inp.selectedWeeks,
                                               formatDate(now \div MinutesPerDay))]>>
            /\ toast' = <<"Export complete!">>
            /\ lastEvent' = "exported"
    /\ UNCHANGED <<appData, convoHelper, pc, runData, page, controlsShown, preUpload,
                   hostTz, inp>>

ExportPersons == {<<"bob">>, <<"amy">>}
ExportWeeks == {<<2024, w>> : w \in {1, 5, 6, 7, 9}}
ExportMonths == {<<2024, m>> : m \in 0..2} \cup {<<2024, 11>>}

NextExport ==
    \/ \E personName \in ExportPersons, now \in Nows : viewPerson(personName, now)
    \/ gotoExport
    \/ \E weekKey \in ExportWeeks : ToggleWeek(weekKey)
    \/ \E monthKey \in ExportMonths : ToggleMonth(monthKey)
    \/ \E now \in Nows : exportConversation(now)

SpecExport == InitExport /\ [][NextExport]_vars

Exported == out # <<>> /\ out[1].kind = "export"

\* the messages a report lists
Listed(markdown) ==
    UNION {Range(markdown.byDate.at[dateKey]) : dateKey \in DOMAIN markdown.byDate.at}

WeeksOfMonth(monthKey) == {box.week : box \in {b \in inp.timeline : b.month = monthKey}}

\* the messages of a conversation that fall in the weeks of a set
MessagesInWeeks(messages, weekKeys) ==
    Cardinality({i \in 1..Len(messages) : WeekKey(messages[i]) \in weekKeys})

\* C29: entering the export page empties the selection; after any sequence
\* of clicks on month and week checkboxes the selected set is a subset of
\* the current person's week cluster keys, a week's checkbox is checked if
\* and only if its key is selected, a checked month checkbox implies that
\* all weeks of that month are selected, and the message total of the
\* summary is the sum of count over the selected weeks.
C29_ExportSelection ==
    /\ lastEvent = "goto-export" => inp.selectedWeeks = {} /\ page = "export"
    /\ page = "export" =>
          LET data == appData.processed[inp.currentPerson.v]
          IN  /\ inp.selectedWeeks \subseteq DOMAIN data.weekClusters.at
              /\ \A box \in inp.timeline :
                    box.week \in inp.weekChecks <=> box.week \in inp.selectedWeeks
              /\ \A monthKey \in inp.monthChecks :
                    WeeksOfMonth(monthKey) \subseteq inp.selectedWeeks
              /\ inp.summary.messages = MessagesInWeeks(data.messages, inp.selectedWeeks)
              /\ inp.summary.weeks = Cardinality(inp.selectedWeeks)

\* C29 witness: on bob's export page February was checked as a month and its
\* week 7 unchecked again: week 6 stays selected, the month checkbox is
\* unchecked, and week 5 of January was selected on its own.
C29_Witness ==
    /\ page = "export"
    /\ lastEvent = "toggle-week"
    /\ inp.currentPerson = Str(<<"bob">>)
    /\ inp.selectedWeeks = {<<2024, 5>>, <<2024, 6>>}
    /\ inp.weekChecks = {<<2024, 5>>, <<2024, 6>>}
    /\ inp.monthChecks = {}
    /\ WeeksOfMonth(<<2024, 1>>) = {<<2024, 6>>, <<2024, 7>>}
    /\ inp.summary.messages = 3

\* C21: the packaging of an export depends on the number of selected weeks:
\* from exactly one selected week the download is that week's report file
\* itself, and only from more than one is it the archive
\* <partnerName>_export (followed by the extension .zip).
C21_PackagingBySelectionSize ==
    Exported =>
        IF Cardinality(out[1].selectedWeeks) = 1
        THEN out[1].filename \in {f.filename : f \in out[1].files}
        ELSE out[1].filename = <<out[1].person, "_export.zip">>

(***************************************************************************)
(* The statistics of one conversation that StatsIndividual and the         *)
(* Processor compute besides the sender metrics: the content breakdown,    *)
(* the consistency score, the milestones and the activity trend.           *)
(***************************************************************************)
\* Stats.countMessageTypes (part_005:40-53)
countMessageTypes(messages) ==
    [type \in {"text", "link", "media", "sticker", "empty"} |->
        Cardinality({i \in 1..Len(messages) : messages[i].type = type})]

NaN == [t |-> "string", nan |-> TRUE]

\* ((count / total) * 100).toFixed(1); 0 / 0 is NaN, whose toFixed is "NaN"
Percentage(count, total) == IF total = 0 THEN NaN ELSE toFixed1(100 * count, total)

\* StatsIndividual.getDetailedContentBreakdown (stats-individual.js:48-62)
getDetailedContentBreakdown(messages) ==
    LET breakdown == countMessageTypes(messages)
        total == Len(messages)
    IN  [counts |-> breakdown,
         percentages |-> [type \in DOMAIN breakdown |-> Percentage(breakdown[type], total)]]

\* the integer part of Math.sqrt(x), found between lo and hi
RECURSIVE SqrtBetween(_, _, _)
SqrtBetween(x, lo, hi) ==
    IF lo = hi THEN lo
    ELSE LET mid == (lo + hi + 1) \div 2
         IN  IF mid * mid <= x THEN SqrtBetween(x, mid, hi) ELSE SqrtBetween(x, lo, mid - 1)

FloorSqrt(x) == SqrtBetween(x, 0, IF x < 46340 THEN x ELSE 46340)

CeilSqrt(x) == IF FloorSqrt(x) * FloorSqrt(x) = x THEN FloorSqrt(x) ELSE FloorSqrt(x) + 1

\* Processor.calculateConsistencyScore (part_000:831-857).  With n dates,
\* S messages and Q = n * (sum of the squared counts) - S * S, the mean is
\* S / n, the standard deviation sqrt(Q) / n and the score
\* 100 - 100 * sqrt(Q) / S, not below 0; toFixed(2) and toFixed(1) round
\* them to hundredths and tenths.
calculateConsistencyScore(messages) ==
    IF Len(messages) = 0 THEN [score |-> Num(0), stdDev |-> Num(0)]
    ELSE LET dateKeys == {DateKey(messages[i]) : i \in 1..Len(messages)}
             messagesByDate ==
                 [k \in dateKeys |->
                     Cardinality({i \in 1..Len(messages) : DateKey(messages[i]) = k})]
             n == Cardinality(dateKeys)
             S == Len(messages)
             squares == Sum([i \in 1..n |->
                                LET k == SortedKeys(dateKeys)[i]
                                IN  messagesByDate[k] * messagesByDate[k]])
             Q == n * squares - S * S
         IN  [score |-> [t |-> "string",
                         tenths |-> IF Q >= S * S THEN 0
                                    ELSE (2001 * S - CeilSqrt(4000000 * Q)) \div (2 * S)],
              stdDev |-> [t |-> "string",
                          hundredths |-> (FloorSqrt(40000 * Q) + n) \div (2 * n)],
              avgPerDay |-> toFixed1(S, n)]

\* anniversaryDate.setFullYear(anniversaryDate.getFullYear() + year): the
\* same month, day of the month and time of day in that year; a day the
\* month lacks there runs over into the next month
setFullYear(date, year) ==
    [day |-> MonthStart(year, getMonth(date.day)) + getDate(date.day) - 1, min |-> date.min]

MinutesPerYear == 365 * MinutesPerDay

countMilestones == <<100, 500, 1000, 5000, 10000>>

\* milestones.sort((a, b) => a.date - b.date) (stats-individual.js:210)
RECURSIVE SortMilestonesFrom(_, _, _)
SortMilestonesFrom(tz, sorted, rest) ==
    IF rest = <<>> THEN sorted
    ELSE LET m == Head(rest)
             k == Cardinality({i \in 1..Len(sorted) :
                                  valueOf(tz, sorted[i].date) <= valueOf(tz, m.date)})
         IN  SortMilestonesFrom(tz, SubSeq(sorted, 1, k) \o <<m>> \o
                                    SubSeq(sorted, k + 1, Len(sorted)), Tail(rest))

\* the last year the anniversary loop reaches: Math.floor(yearsDiff)
\* (stats-individual.js:193-197)
AnniversaryYears(tz, firstDate, lastDate) ==
    (valueOf(tz, lastDate) - valueOf(tz, firstDate)) \div MinutesPerYear

\* StatsIndividual.calculateMilestones (stats-individual.js:164-213)
calculateMilestones(tz, processedData) ==
    LET messages == processedData.messages
        first == IF Len(messages) > 0
                 THEN <<[type |-> "first", date |-> messages[1].date,
                         message |-> <<"First message">>]>>
                 ELSE <<>>
        reached == SelectSeq(countMilestones, LAMBDA milestone : Len(messages) >= milestone)
        counts == [j \in 1..Len(reached) |->
                      [type |-> "count", date |-> messages[reached[j]].date,
                       message |-> <<reached[j], "th message">>]]
    IN  IF Len(messages) = 0
        THEN Throw("TypeError", <<"Cannot read properties of undefined (reading 'date')">>)
        ELSE LET firstDate == messages[1].date
                 lastDate == messages[Len(messages)].date
                 years == AnniversaryYears(tz, firstDate, lastDate)
                 anniversaries ==
                     [year \in 1..years |->
                         [type |-> "anniversary",
                          date |-> setFullYear(firstDate, getFullYear(firstDate.day) + year),
                          message |-> <<year, IF year > 1 THEN " years of conversation"
                                              ELSE " year of conversation">>]]
             IN  Ok(SortMilestonesFrom(tz, <<>>, first \o counts \o anniversaries))

\* Object.keys(monthGroups).sort(): the keys `${year}-${month, 2 digits}`
\* in the order of strings
RECURSIVE SortedMonthKeys(_)
SortedMonthKeys(keys) ==
    IF keys = {} THEN <<>>
    ELSE LET least == CHOOSE k \in keys : \A other \in keys \ {k} :
                          k[1] < other[1] \/ (k[1] = other[1] /\ k[2] < other[2])
         IN  <<least>> \o SortedMonthKeys(keys \ {least})

\* ((lastThreeTotal - prevThreeTotal) / prevThreeTotal * 100).toFixed(1),
\* or the number 0: the sign and the tenths of the magnitude
PercentageChange(lastThreeTotal, prevThreeTotal) ==
    IF prevThreeTotal > 0
    THEN [t |-> "string",
          negative |-> lastThreeTotal < prevThreeTotal,
          tenths |-> toFixed1(100 * Abs(lastThreeTotal - prevThreeTotal), prevThreeTotal).tenths]
    ELSE [t |-> "number", negative |-> FALSE, tenths |-> 0]

\* Math.abs(percentageChange) > 10
TrendThreshold == 10

\* StatsIndividual.calculateActivityTrend (stats-individual.js:220-262)
calculateActivityTrend(monthGroups) ==
    LET sortedKeys == SortedMonthKeys(DOMAIN monthGroups.at)
        n == Len(sortedKeys)
    IN  IF n < 6
        THEN [trend |-> "insufficient_data", percentage |-> 0, direction |-> "stable"]
        ELSE LET lastThreeTotal ==
                     Sum([i \in 1..3 |-> monthGroups.at[sortedKeys[n - 3 + i]].totalMessages])
                 prevThreeTotal ==
                     Sum([i \in 1..3 |-> monthGroups.at[sortedKeys[n - 6 + i]].totalMessages])
                 percentageChange == PercentageChange(lastThreeTotal, prevThreeTotal)
                 direction == IF percentageChange.tenths > 10 * TrendThreshold
                              THEN (IF percentageChange.negative THEN "down" ELSE "up")
                              ELSE "stable"
             IN  [trend |-> direction,
                  percentage |-> percentageChange.tenths,
                  lastThreeTotal |-> lastThreeTotal,
                  prevThreeTotal |-> prevThreeTotal,
                  direction |-> direction]

(***************************************************************************)
(* The engine functions called on their own, on a conversation record      *)
(* that is empty or holds up to MaxEngineMsgs messages.                    *)
(***************************************************************************)
MaxEngineMsgs == 3

EngineGaps == {60, 40 * MinutesPerDay}

EngineFunctions ==
    {"response", "initiator", "bursts", "gaps", "balance", "consistency", "content",
     "milestones", "trend"}

\* a conversation record without messages
EmptyData == [messages |-> <<>>, monthGroups |-> EmptyObject]

EngineData(tz) ==
    {EmptyData} \cup
    {processPerson(Timeline(tz, DateString(2024, 2, 5, 12, 0), s)) :
        s \in Feeds(EngineGaps, StatSenders, MaxEngineMsgs) \ {<<>>}}

InitEngine ==
    /\ SessionIdle
    /\ hostTz = "fixed"
    /\ inp \in [identity : {Str(<<>>), Str(<<"you">>)}, processedData : EngineData(hostTz), now : Nows]
    /\ out = <<>>

\* the outcome of one engine function on the record
Engine(fn, tz, identity, processedData, now) ==
    CASE fn = "response" -> Ok(calculateResponseTimes(identity, processedData.messages))
      [] fn = "initiator" -> Ok(calculateInitiatorScore(identity, processedData.messages))
      [] fn = "bursts" -> Ok(detectMessageBursts(processedData.messages))
      [] fn = "gaps" -> Ok(calculateGapsAndStreaks(processedData.messages, now))
      [] fn = "balance" -> Ok(calculateBalanceScore(identity, processedData.messages))
      [] fn = "consistency" -> Ok(calculateConsistencyScore(processedData.messages))
      [] fn = "content" -> Ok(getDetailedContentBreakdown(processedData.messages))
      [] fn = "milestones" -> calculateMilestones(tz, processedData)
      [] fn = "trend" -> Ok(calculateActivityTrend(processedData.monthGroups))

CallEngine(fn) ==
    /\ out = <<>>
    /\ out' = <<[call |-> fn,
                 result |-> Engine(fn, hostTz, inp.identity, inp.processedData, inp.now)]>>
    /\ UNCHANGED <<sessionVars, hostTz, inp>>

NextEngine == \E fn \in EngineFunctions : CallEngine(fn)

SpecEngine == InitEngine /\ [][NextEngine]_vars

\* a count that is zero
NoCount(x) == x = 0

\* a number that is zero, or the string of one
IsZero(x) == x \in {Num(0), Ratio(0, 1), [t |-> "string", tenths |-> 0]}

\* the neutral result of an engine function: every number zero, every list
\* empty
Neutral(fn, v) ==
    CASE fn = "response" ->
             /\ IsZero(v.yourAverage) /\ IsZero(v.theirAverage)
             /\ IsZero(v.yourMedian) /\ IsZero(v.theirMedian)
      [] fn = "initiator" ->
             /\ NoCount(v.youInitiated) /\ NoCount(v.themInitiated)
             /\ IsZero(v.yourPercentage) /\ IsZero(v.theirPercentage)
      [] fn = "bursts" -> v = <<>>
      [] fn = "gaps" ->
             /\ NoCount(v.longestGap) /\ NoCount(v.currentStreak) /\ NoCount(v.longestStreak)
             /\ v.gaps = <<>>
      [] fn = "balance" ->
             /\ IsZero(v.score) /\ IsZero(v.yourPercentage) /\ IsZero(v.theirPercentage)
             /\ NoCount(v.youCount) /\ NoCount(v.themCount)
      [] fn = "consistency" -> IsZero(v.score) /\ IsZero(v.stdDev)
      [] fn = "content" ->
             \A type \in DOMAIN v.counts :
                 NoCount(v.counts[type]) /\ IsZero(v.percentages[type])
      [] fn = "milestones" -> v = <<>>
      [] fn = "trend" ->
             v.trend = "insufficient_data" /\ NoCount(v.percentage) /\ v.direction = "stable"

\* C22: every analytics function, given a conversation record whose list of
\* messages is empty, returns a neutral zero-valued result and does not
\* throw: response times, initiator score, bursts, gaps and streaks,
\* balance, consistency, content breakdown, milestones and activity trend.
C22_EmptyIsNeutral ==
    (out # <<>> /\ inp.processedData.messages = <<>>) =>
        /\ out[1].result.ok
        /\ Neutral(out[1].call, out[1].result.v)

(***************************************************************************)
(* calculateMilestones called on its own, on conversations of 1 to 500     *)
(* messages that span from no time to four years and a day.                *)
(***************************************************************************)
MilestoneStarts ==
    {DateString(2020, 2, 29, 12, 0), DateString(2023, 3, 1, 9, 0), DateString(2024, 1, 1, 0, 30)}

MilestoneSpans == {0, 364, 365, 366, 730, 731, 4 * 365, 4 * 365 + 1}

MilestoneCounts == {1, 99, 100, 101, 500}

\* count messages from start on: a minute apart, the last one a number of
\* days after the first
Spread(tz, start, count, days) ==
    [i \in 1..count |->
        MessageAt(tz,
                  IF i = count /\ days > 0 THEN Later(start, days * MinutesPerDay + i - 1)
                  ELSE Later(start, i - 1),
                  IF i % 2 = 1 THEN "you" ELSE "bob")]

MilestoneInputs(tz) ==
    {[messages |-> Spread(tz, start, count, days)] :
        start \in MilestoneStarts, count \in MilestoneCounts, days \in MilestoneSpans}

InitMilestones ==
    /\ SessionIdle
    /\ hostTz \in TzProfiles
    /\ inp \in MilestoneInputs(hostTz)
    /\ out = <<>>

CallMilestones ==
    /\ out = <<>>
    /\ out' = <<calculateMilestones(hostTz, inp)>>
    /\ UNCHANGED <<sessionVars, hostTz, inp>>

NextMilestones == CallMilestones

SpecMilestones == InitMilestones /\ [][NextMilestones]_vars

\* the milestones of a type among those returned
OfType(milestones, type) == {i \in 1..Len(milestones) : milestones[i].type = type}

\* the date k calendar years after the first message
YearsAfterFirst(messages, k) ==
    setFullYear(messages[1].date, getFullYear(messages[1].date.day) + k)

MostYears == 6

\* C23: calculateMilestones emits exactly one anniversary per full year
\* between the first and the last message: anniversary k is there if and
\* only if the date k calendar years after the first message is not later
\* than the last message, so none is dated after the last message; the
\* count milestones 100, 500, 1000, 5000 and 10000 are there if and only if
\* the conversation has that many messages, dated at the message of that
\* ordinal; the list is in ascending order of date.
C23_Milestones ==
    out # <<>> =>
        LET milestones == out[1].v
            messages == inp.messages
            last == messages[Len(messages)].timestamp
        IN  /\ out[1].ok
            /\ \A k \in 1..MostYears :
                  LET dated == {i \in OfType(milestones, "anniversary") :
                                   milestones[i].message[1] = k}
                  IN  /\ Cardinality(dated) =
                            IF valueOf(hostTz, YearsAfterFirst(messages, k)) <= last
                            THEN 1 ELSE 0
                      /\ \A i \in dated : milestones[i].date = YearsAfterFirst(messages, k)
            /\ \A i \in OfType(milestones, "anniversary") :
                  /\ milestones[i].message[1] \in 1..MostYears
                  /\ valueOf(hostTz, milestones[i].date) <= last
            /\ \A j \in 1..Len(countMilestones) :
                  LET reached == {i \in OfType(milestones, "count") :
                                     milestones[i].message[1] = countMilestones[j]}
                  IN  /\ Cardinality(reached) =
                            IF Len(messages) >= countMilestones[j] THEN 1 ELSE 0
                      /\ \A i \in reached :
                            milestones[i].date = messages[countMilestones[j]].date
            /\ \A i \in 1..(Len(milestones) - 1) :
                  valueOf(hostTz, milestones[i].date) <= valueOf(hostTz, milestones[i + 1].date)

(***************************************************************************)
(* Density: the ranking of StatsGeneral.calculateAllDensityScores          *)
(* (stats-general.js:60-85) and the style clusters of                      *)
(* StatsComparative.identifyStyleClusters (stats-comparative.js:55-92).    *)
(* A quotient is kept as Ratio(num, den); with den = 0 and num > 0 it is   *)
(* Infinity.  The lists are kept as the sets of their entries.             *)
(***************************************************************************)
\* (value).toFixed(2), kept as the number of hundredths
toFixed2(num, den) == [t |-> "string", hundredths |-> (2 * 100 * num + den) \div (2 * den)]

Infinity == [t |-> "string", infinite |-> TRUE]

\* Math.ceil((data.lastMessage.date - data.firstMessage.date) / (1000*60*60*24))
DaysSpanned(data) ==
    CeilDiv(data.lastMessage.timestamp - data.firstMessage.timestamp, MinutesPerDay)

\* ... || 1 (stats-general.js:67)
DaysDiff(data) == IF DaysSpanned(data) = 0 THEN 1 ELSE DaysSpanned(data)

\* a.density > b.density
Denser(a, b) == a.num * b.den > b.num * a.den

\* StatsGeneral.calculateAllDensityScores (stats-general.js:60-85)
calculateAllDensityScores(processed) ==
    LET density == [person \in DOMAIN processed |->
                       Ratio(processed[person].totalMessages, DaysDiff(processed[person]))]
        maxDensity == density[CHOOSE p \in DOMAIN processed :
                                  \A q \in DOMAIN processed : ~Denser(density[q], density[p])]
    IN  {[name |-> person,
          density |-> density[person],
          messagesPerDay |-> toFixed2(density[person].num, density[person].den),
          percentage |-> toFixed1(100 * density[person].num * maxDensity.den,
                                  density[person].den * maxDensity.num)] :
            person \in DOMAIN processed}

\* msg.content.trim().split(/\s+/).length: the words that are not blank
WordsOf(content) == Cardinality({j \in 1..Len(content) : content[j] # wBlank})

\* Stats.countWords (part_005:78-88)
countWords(messages) ==
    Sum([i \in 1..Len(messages) |->
            IF messages[i].type = "text" /\ messages[i].content # <<>>
            THEN WordsOf(messages[i].content) ELSE 0])

\* a word that holds a question mark
wWhy == <<"why?">>

\* StatsIndividual.calculateQuestionRatio (stats-individual.js:69-87): the
\* counts the percentage is made of
calculateQuestionRatio(messages) ==
    LET texts == {i \in 1..Len(messages) :
                     messages[i].type = "text" /\ messages[i].content # <<>>}
    IN  [questionCount |-> Cardinality({i \in texts : wWhy \in Range(messages[i].content)}),
         textMessageCount |-> Cardinality(texts)]

\* StatsComparative.identifyStyleClusters (stats-comparative.js:55-92)
identifyStyleClusters(processed) ==
    LET messages(person) == processed[person].messages
        shared(person) ==
            Cardinality({i \in 1..Len(messages(person)) :
                            messages(person)[i].type \in {"link", "media"}})
        texts(person) ==
            Cardinality({i \in 1..Len(messages(person)) : messages(person)[i].type = "text"})
        avgWords(person) ==
            Ratio(countWords(messages(person)), IF texts(person) < 1 THEN 1 ELSE texts(person))
        questions(person) == calculateQuestionRatio(messages(person))
        density(person) ==
            Ratio(processed[person].totalMessages, DaysSpanned(processed[person]))
    IN  [mediaSharers |->
             {[name |-> person,
               score |-> toFixed1(100 * shared(person), Len(messages(person)))] :
                 person \in {p \in DOMAIN processed :
                                5 * shared(p) > Len(messages(p))}},
         deepThinkers |->
             {[name |-> person,
               score |-> toFixed1(avgWords(person).num, avgWords(person).den)] :
                 person \in {p \in DOMAIN processed :
                                /\ avgWords(p).num > 15 * avgWords(p).den
                                /\ questions(p).textMessageCount > 0
                                /\ toFixed1(100 * questions(p).questionCount,
                                            questions(p).textMessageCount).tenths > 150}},
         quickChatters |->
             {[name |-> person,
               score |-> IF density(person).den = 0 THEN Infinity
                         ELSE toFixed1(density(person).num, density(person).den)] :
                 person \in {p \in DOMAIN processed :
                                /\ Denser(density(p), Ratio(5, 1))
                                /\ avgWords(p).num < 10 * avgWords(p).den}},
         casualFriends |->
             {[name |-> person,
               score |-> toFixed2(density(person).num, density(person).den)] :
                 person \in {p \in DOMAIN processed :
                                /\ density(p).den > 0
                                /\ Denser(Ratio(1, 1), density(p))
                                /\ Denser(density(p), Ratio(1, 10))}}]

(***************************************************************************)
(* The two called on the conversations of one or two partners.             *)
(***************************************************************************)
StyleCounts == {1, 2, 6, 7}

\* minutes between the first and the last message
StyleSpans == {0, 1, MinutesPerDay, MinutesPerDay + 1, 3 * MinutesPerDay, 30 * MinutesPerDay}

\* words of a message
StyleWords == {1, 10, 16}

\* count messages of so many words each, a question when they are more than
\* ten, the last one span minutes after the others
Chat(tz, start, count, span, words) ==
    [i \in 1..count |->
        parseMessage(tz, NoOffset,
                     RawMsg(IF i = count /\ count > 1 THEN Later(start, span) ELSE start,
                            IF i % 2 = 1 THEN "bob" ELSE "you",
                            [j \in 1..words |-> IF j = 1 /\ words > 10 THEN wWhy ELSE wHi])).v]

StyleChats(tz) ==
    {Chat(tz, DateString(2024, 2, 5, 12, 0), count, span, words) :
        count \in StyleCounts, span \in StyleSpans, words \in StyleWords}

\* amy's conversation: two messages, three days apart
AmyChat(tz) == Chat(tz, DateString(2024, 3, 1, 8, 0), 2, 3 * MinutesPerDay, 1)

StyleInputs(tz) ==
    {[person \in {<<"bob">>} |-> processPerson(chat)] : chat \in StyleChats(tz)} \cup
    {[person \in {<<"bob">>, <<"amy">>} |->
         processPerson(IF person = <<"bob">> THEN chat ELSE AmyChat(tz))] :
        chat \in StyleChats(tz)}

InitStyle ==
    /\ SessionIdle
    /\ hostTz \in TzProfiles
    /\ inp \in StyleInputs(hostTz)
    /\ out = <<>>

CallIdentifyStyleClusters ==
    /\ out = <<>>
    /\ out' = <<[call |-> "style", result |-> identifyStyleClusters(inp)]>>
    /\ UNCHANGED <<sessionVars, hostTz, inp>>

CallDensityScores ==
    /\ out = <<>>
    /\ out' = <<[call |-> "density", result |-> calculateAllDensityScores(inp)]>>
    /\ UNCHANGED <<sessionVars, hostTz, inp>>

NextStyle == CallIdentifyStyleClusters \/ CallDensityScores

SpecStyle == InitStyle /\ [][NextStyle]_vars

\* the density of the ranking: totalMessages / daysSpanned, the days
\* rounded up and never less than 1
RankingDensity(processed, person) ==
    (CHOOSE score \in calculateAllDensityScores(processed) : score.name = person).density

\* the average number of words of a text message
AvgWords(messages) ==
    Ratio(countWords(messages),
          Cardinality({i \in 1..Len(messages) : messages[i].type = "text"}))

Names(cluster) == {entry.name : entry \in cluster}

\* C24: the style clusters use the density of the ranking, totalMessages /
\* daysSpanned with the days rounded up and never less than 1: a
\* conversation is a quick chatter if and only if that density is above 5
\* and the average of words per text message below 10, and casual if and
\* only if that density is strictly between 0.1 and 1; a conversation whose
\* first and last message bear the same timestamp has a density equal to
\* its number of messages, which is finite.
C24_StyleUsesRankingDensity ==
    (out # <<>> /\ out[1].call = "style") =>
        \A person \in DOMAIN inp :
            LET density == RankingDensity(inp, person)
                avgWords == AvgWords(inp[person].messages)
            IN  /\ density.den >= 1
                /\ person \in Names(out[1].result.quickChatters) <=>
                      /\ density.num > 5 * density.den
                      /\ avgWords.num < 10 * avgWords.den
                /\ person \in Names(out[1].result.casualFriends) <=>
                      /\ 10 * density.num > density.den
                      /\ density.num < density.den
                /\ \A entry \in out[1].result.quickChatters \cup out[1].result.casualFriends :
                      entry.score # Infinity
                /\ inp[person].firstMessage.timestamp = inp[person].lastMessage.timestamp =>
                      density = Ratio(inp[person].totalMessages, 1)

(***************************************************************************)
(* calculateActivityTrend called on the month groups of conversations of   *)
(* up to MaxTrendMsgs messages, sent days, a month or two months apart.    *)
(***************************************************************************)
MaxTrendMsgs == 7

TrendGaps == {2 * MinutesPerDay, 31 * MinutesPerDay, 62 * MinutesPerDay}

TrendInputs(tz) ==
    {processPerson(Timeline(tz, DateString(2024, 1, 10, 12, 0), s)) :
        s \in Feeds(TrendGaps, {"you"}, MaxTrendMsgs) \ {<<>>}}

InitTrend ==
    /\ SessionIdle
    /\ hostTz = "fixed"
    /\ inp \in TrendInputs(hostTz)
    /\ out = <<>>

CallActivityTrend ==
    /\ out = <<>>
    /\ out' = <<calculateActivityTrend(inp.monthGroups)>>
    /\ UNCHANGED <<sessionVars, hostTz, inp>>

NextTrend == CallActivityTrend

SpecTrend == InitTrend /\ [][NextTrend]_vars

\* the calendar month of a message, counted from year 0
MonthOf(msg) == 12 * msg.year + msg.month

\* the messages dated in the calendar months from..to
SentInMonths(messages, from, to) ==
    Cardinality({i \in 1..Len(messages) : MonthOf(messages[i]) \in from..to})

PopulatedMonths(messages) == {MonthOf(messages[i]) : i \in 1..Len(messages)}

\* C25: calculateActivityTrend reports insufficient data when fewer than 6
\* months are populated; otherwise it compares the message total of the
\* last 3 calendar months of the conversation's history with the total of
\* the 3 calendar months right before them, and the direction is up or down
\* only if the change exceeds 10% of the earlier total, and stable
\* otherwise.
C25_ActivityTrend ==
    out # <<>> =>
        LET messages == inp.messages
            last == MonthOf(messages[Len(messages)])
            lastThree == SentInMonths(messages, last - 2, last)
            prevThree == SentInMonths(messages, last - 5, last - 3)
        IN  IF Cardinality(PopulatedMonths(messages)) < 6
            THEN out[1].trend = "insufficient_data"
            ELSE /\ out[1].trend = out[1].direction
                 /\ out[1].lastThreeTotal = lastThree
                 /\ out[1].prevThreeTotal = prevThree
                 /\ out[1].direction = "up" => 100 * (lastThree - prevThree) > 10 * prevThree
                 /\ out[1].direction = "down" => 100 * (prevThree - lastThree) > 10 * prevThree
                 /\ out[1].direction \in {"up", "down", "stable"}

(***************************************************************************)
(* SpecNames: extractConversations (parser.js:79-102) applied to a         *)
(* ChatHistory of one or two entries whose keys are "Chat History with "   *)
(* + name + ":".  A name is up to MaxNameLen tokens, among them ":" and    *)
(* the prefix text itself; an entry holds one valid message, no element,   *)
(* or one element that fails validation.                                   *)
(***************************************************************************)
MaxNameLen == 2

NameTokens == {"amy", "bob", Colon, Prefix}

RECURSIVE SeqsOfLen(_, _)
SeqsOfLen(tokens, n) ==
    IF n = 0 THEN {<<>>}
    ELSE {<<tok>> \o s : tok \in tokens, s \in SeqsOfLen(tokens, n - 1)}

PartnerNames == UNION {SeqsOfLen(NameTokens, n) : n \in 1..MaxNameLen}

KeyOf(name) == <<Prefix>> \o name \o <<Colon>>

\* the elements of the i-th entry
ItemChoices(i) ==
    {<<RawMsg(DateString(2024, 1, 30 + i, 9, 0), "you", <<wHi>>)>>,
     <<>>,
     <<Element(Undefined, Str(<<"bob">>), Str(<<wHi>>))>>}

NameInputs ==
    {Data(3, <<Entry(KeyOf(n1), i1)>>) : n1 \in PartnerNames, i1 \in ItemChoices(1)} \cup
    {Data(3, <<Entry(KeyOf(n[1]), i1), Entry(KeyOf(n[2]), i2)>>) :
        n \in {p \in PartnerNames \X PartnerNames : p[1] # p[2]},
        i1 \in ItemChoices(1), i2 \in ItemChoices(2)}

InitNames ==
    /\ SessionIdle
    /\ hostTz \in TzProfiles
    /\ inp \in NameInputs
    /\ out = <<>>

CallExtractConversations ==
    /\ out = <<>>
    /\ out' = <<extractConversations(hostTz, NoOffset, inp)>>
    /\ UNCHANGED <<sessionVars, hostTz, inp>>

NextNames == CallExtractConversations

SpecNames == InitNames /\ [][NextNames]_vars

\* the text of a key between "Chat History with " and its final ":"
NameBetween(key) == SubSeq(key, 2, Len(key) - 1)

\* the valid messages of the i-th entry, parsed
ValidOf(i) == ValidMessages(hostTz, NoOffset, inp.chat[i].value.items, <<>>).v

\* the entries that have at least one valid message
WithValid == {i \in 1..Len(inp.chat) : ValidOf(i) # <<>>}

\* C30: extractConversations returns one entry per conversation key that has
\* a valid message, under the name that stands between "Chat History with "
\* and the final ":" of the key, holding the messages of that key alone;
\* distinct keys get distinct names, also when a name contains ":" or the
\* prefix text
C30_DistinctKeysDistinctNames ==
    out # <<>> =>
        /\ out[1].ok
        /\ DOMAIN out[1].v = {NameBetween(inp.chat[i].key) : i \in WithValid}
        /\ Cardinality(DOMAIN out[1].v) = Cardinality(WithValid)
        /\ \A i \in WithValid : out[1].v[NameBetween(inp.chat[i].key)] = ValidOf(i)

(***************************************************************************)
(* The pipeline run again.  A run is processData (part_003:325-362)        *)
(* followed by the statistics of every conversation, as UI.viewPerson      *)
(* computes them (ui.js:239-245); the clock is read by                     *)
(* calculateGapsAndStreaks and categorizeByActivity.  inp.now is the       *)
(* clock, out the runs made so far.                                        *)
(***************************************************************************)
\* StatsGeneral.calculateAllBalanceScores (stats-general.js:40-54), the array
\* kept as the set of its entries
calculateAllBalanceScores(identity, processed) ==
    {[name |-> person,
      score |-> calculateBalanceScore(identity, processed[person].messages).score.tenths] :
        person \in DOMAIN processed}

\* StatsGeneral.generateEnhancedOverviewStats (stats-general.js:12-32): the
\* totals, the balance scores and the activity categories
generateEnhancedOverviewStats(identity, processed, now) ==
    [basicStats |-> generateOverviewStats(processed),
     conversationBalanceScores |-> calculateAllBalanceScores(identity, processed),
     activityCategories |-> categorizeByActivity(processed, now)]

Derived(identity, processed, now) ==
    [processed |-> processed,
     overviewStats |-> generateOverviewStats(processed),
     enhancedOverviewStats |-> generateEnhancedOverviewStats(identity, processed, now),
     personStats |-> [person \in DOMAIN processed |->
                         generateEnhancedPersonStats(identity, processed[person], now)]]

Pipeline(tz, helper, identity, rawData, now) ==
    Then(parseJSON(rawData), LAMBDA data :
         Then(extractConversations(tz, helper, data), LAMBDA conversations :
              Ok(Derived(identity, processConversations(conversations), now))))

RerunFiles == {FileBob, FileAmy}

MaxRuns == 2

InitRerun ==
    /\ \E file \in RerunFiles :
         \E identity \in extractAllSenders(JSONparse(file).v) :
            appData = [InitAppData EXCEPT !.rawData = file,
                                          !.allSenders = extractAllSenders(JSONparse(file).v),
                                          !.userIdentity = Str(<<identity>>)]
    /\ convoHelper = Undefined
    /\ pc = "idle"
    /\ runData = Null
    /\ toast = <<>>
    /\ page = "upload"
    /\ controlsShown = TRUE
    /\ preUpload = InitAppData
    /\ lastEvent = "upload-ok"
    /\ hostTz = "fixed"
    /\ inp \in [now : {CHOOSE n \in Nows : \A other \in Nows : n <= other}]
    /\ out = <<>>

\* time passes
Tick(now) ==
    /\ now \in Nows
    /\ now > inp.now
    /\ inp' = [inp EXCEPT !.now = now]
    /\ UNCHANGED <<sessionVars, hostTz, out>>

RunPipeline ==
    /\ Len(out) < MaxRuns
    /\ out' = Append(out, [now |-> inp.now,
                           helper |-> convoHelper,
                           derived |-> Pipeline(hostTz, convoHelper, appData.userIdentity,
                                                appData.rawData, inp.now)])
    /\ UNCHANGED <<sessionVars, hostTz, inp>>

NextRerun ==
    \/ \E currentTimezone \in TimezoneChoices : applyTimezone(currentTimezone)
    \/ \E now \in Nows : Tick(now)
    \/ RunPipeline

SpecRerun == InitRerun /\ [][NextRerun]_vars

\* the statistics that read the clock, blanked
WithoutClock(derived) ==
    [derived EXCEPT
        !.enhancedOverviewStats.activityCategories = {},
        !.personStats = [person \in DOMAIN derived.personStats |->
                            [@[person] EXCEPT !.gapsAndStreaks.currentStreak = 0]]]

C2_FailureRestoresSession ==
    lastEvent \in {"upload-failed", "parse-failed", "extract-failed"} => appData = preUpload

\* the file of the current run violates the schema: it is JSON, and
\* validateStructure rejects it with a line naming the offending key
SchemaViolation(raw) ==
    /\ JSONparse(raw).ok
    /\ validateStructure(JSONparse(raw).v).ok
    /\ ~validateStructure(JSONparse(raw).v).v.valid

\* C4: a schema violation is surfaced verbatim, with the offending key path, and
\* never as a parse error; unparseable text is surfaced as a parse error that
\* wraps the parser's message.
C4_SchemaErrorVerbatim ==
    lastEvent = "parse-failed" =>
        IF SchemaViolation(appData.rawData)
        THEN /\ "Failed to parse JSON: " \notin Range(toast)
             /\ toast = <<"Error processing data: ">>
                        \o validateStructure(JSONparse(appData.rawData).v).v.console
        ELSE toast = <<"Error processing data: ", "Failed to parse JSON: ">>
                     \o JSONparse(appData.rawData).err.message

\* message validation as the specification words it
ValidElement(e) ==
    /\ e.t = "object"
    /\ e.Date.t = "string" /\ e.Date.v # <<>>
    /\ Truthy(e.From)
    /\ e.Content.t # "undefined"

ValidCount(items) == Cardinality({i \in 1..Len(items) : ValidElement(items[i])})

ChatOf(raw) == JSONparse(raw).v.chat

\* C3: an element that fails message validation is dropped without making
\* ingestion fail, and every valid element of the same input is emitted.
C3_InvalidElementsDropped ==
    (lastEvent \in {"extract-ok", "extract-failed"} /\ convoHelper # Undefined) =>
        /\ lastEvent = "extract-ok"
        /\ \A i \in 1..Len(ChatOf(appData.rawData)) :
                LET entry == ChatOf(appData.rawData)[i]
                    name == personNameOf(entry.key)
                IN  IF ValidCount(entry.value.items) = 0
                    THEN name \notin DOMAIN appData.conversations
                    ELSE /\ name \in DOMAIN appData.conversations
                         /\ Len(appData.conversations[name]) = ValidCount(entry.value.items)

AllValid(raw) ==
    \A i \in 1..Len(ChatOf(raw)) :
        \A j \in 1..Len(ChatOf(raw)[i].value.items) : ValidElement(ChatOf(raw)[i].value.items[j])

ConfiguredOffset == IF convoHelper = Undefined THEN 0 ELSE convoHelper.timezoneOffset

\* C7: normalising valid messages succeeds whether or not an offset was ever
\* configured, and every timestamp of the run is the parsed Date plus the
\* configured hours (0 when none was configured).
C7_OffsetOptional ==
    (lastEvent \in {"extract-ok", "extract-failed"} /\ AllValid(appData.rawData)) =>
        /\ lastEvent = "extract-ok"
        /\ \A i \in 1..Len(ChatOf(appData.rawData)) :
                LET entry == ChatOf(appData.rawData)[i]
                    messages == appData.conversations[personNameOf(entry.key)]
                IN  \A j \in 1..Len(messages) :
                        messages[j].timestamp
                            = valueOf(hostTz, entry.value.items[j].Date.v[1]) + 60 * ConfiguredOffset

\* C12: processConversations leaves the conversations map it is given as it
\* was: the clustering step changes no message sequence of appData.conversations.
C12_ProcessingLeavesInputUnchanged ==
    [][pc = "cluster" => appData'.conversations = appData.conversations]_vars

\* the identity C19 names: the selected identity if it is a sender of the
\* conversation, otherwise the sender of its first message
ResolvedYou(userIdentity, messages) ==
    IF userIdentity.t = "string" /\ userIdentity.v # <<>>
       /\ userIdentity.v[1] \in {m.from : m \in Range(messages)}
    THEN userIdentity.v[1]
    ELSE messages[1].from

\* C19: in every state reached after processing, the statistics of a
\* conversation count as messages of "you" those of the selected identity if
\* it is one of the conversation's senders and otherwise those of the sender of
\* the first message, so that "you" is always a sender of the conversation,
\* also after the identity selector was changed or cleared.
C19_ResolvedYouIsASender ==
    out # <<>> /\ out[1].kind = "view" =>
        LET messages == appData.processed[out[1].person].messages
            balance == out[1].enhancedStats.balanceScore
        IN  /\ balance.youCount = SentBy(messages, ResolvedYou(out[1].userIdentity, messages))
            /\ balance.youCount > 0

\* C26: at most one pipeline run is active at any time: from the start of
\* processData to its completion or failure, across its awaits, nothing but
\* the run itself writes session state: no second run, no upload, no change
\* of identity or of timezone.  The steps of the run are those that move pc.
C26_SingleActiveComputation ==
    [][(pc # "idle" /\ pc' = pc) => (appData' = appData /\ convoHelper' = convoHelper)]_vars

\* C27: a new upload replaces the session state wholesale: once a second
\* file has been uploaded no field of the session holds a value derived from
\* the first: the selected identity is unset or a sender of the new file,
\* and the conversations, the clusters and the statistics of the first file
\* are gone.
C27_UploadReplacesSession ==
    (lastEvent = "upload-ok" /\ preUpload.rawData # Null) =>
        /\ \/ ~Truthy(appData.userIdentity)
           \/ appData.userIdentity.v[1] \in extractAllSenders(JSONparse(appData.rawData).v)
        /\ appData.conversations = Null
        /\ appData.processed = Null
        /\ appData.overviewStats = Null

\* C28: in every week cluster clusterByWeeks makes, the calendar date of
\* every member message lies within the cluster's dateRange, from its Monday
\* to its Sunday, both included; dateRange.start is a Monday, 6 days before
\* dateRange.end; so too for the last days of December and the first of
\* January.
C28_MembersWithinDateRange ==
    out # <<>> =>
        \A person \in DOMAIN out[1] :
            \A k \in DOMAIN out[1][person].weekClusters.at :
                LET week == out[1][person].weekClusters.at[k]
                IN  /\ getDay(week.dateRange.start) = 1
                    /\ week.dateRange.end = week.dateRange.start + 6
                    /\ \A m \in Range(week.messages) :
                          /\ week.dateRange.start <= m.date.day
                          /\ m.date.day <= week.dateRange.end

\* C8: for every calendar date of the range getISOWeek returns the ISO-8601
\* week number of that date, a number in 1..53.
C8_GetISOWeekIsIso ==
    (out # <<>>) => (out[1] = IsoWeekRef(inp.day) /\ out[1] \in 1..53)

====
